---------------------------- MODULE Spec2Model ----------------------------
(***************************************************************************)
(* Model of the HPPS scoring core (src/function.py).                       *)
(*                                                                         *)
(* Numbers.  Python floats are modelled as exact fixed-point decimals:     *)
(*   raw inputs, ratios, normalised terms : units of 1e-4   (Q)            *)
(*   percentiles (0..100)                 : units of 1e-4                  *)
(*   sub-scores AD, EAP, CCL, LA          : units of 1e-6   (ONE6)         *)
(*   penalty and penalty multiplier       : units of 1e-7   (ONE7)         *)
(*   base_HPPS                            : units of 1e-8   (ONE8)         *)
(*   HPPS, HPPS_percentage                : units of 1e-15, held as a      *)
(*                                          little-endian list of base-1e4 *)
(*                                          limbs (the product of the      *)
(*                                          multiplier and the base does   *)
(*                                          not fit a 32-bit integer)      *)
(* Every weight of the source is a whole number of hundredths, so the      *)
(* weighted sums are exact in these units.  Float rounding (1 ulp) is not  *)
(* modelled.                                                               *)
(*                                                                         *)
(* Values.  A Python value handed to the validators is a record whose k    *)
(* field names its kind: none (None), num (int or float, v in 1e-4),       *)
(* int (a Python int result, n), str (a string float() parses, v),         *)
(* badstr (a string float() rejects), strnan (a string parsing to nan or   *)
(* inf, such as "nan" or "1e400"), nan, inf (float nan / inf), huge (an    *)
(* int beyond the float range, such as 10**400) and obj (any other         *)
(* object, such as a list).                                                *)
(***************************************************************************)
EXTENDS Integers, Sequences, FiniteSets, TLC

VARIABLES pc, call, out, prev, ncalls

vars == <<pc, call, out, prev, ncalls>>

-----------------------------------------------------------------------------
(* Units *)

Q == 10 ^ 4
ONE6 == 100 * Q
ONE7 == 10 * ONE6
ONE8 == 100 * ONE6

-----------------------------------------------------------------------------
(* Python values *)

None == [k |-> "none"]
Num(v) == [k |-> "num", v |-> v]
PyInt(n) == [k |-> "int", n |-> n]
Str(v) == [k |-> "str", v |-> v]
BadStr == [k |-> "badstr"]
StrNaN == [k |-> "strnan"]
NaN == [k |-> "nan"]
Inf == [k |-> "inf"]
Huge == [k |-> "huge"]
Obj == [k |-> "obj"]
Raised == [k |-> "raise"]

(* What a call hands back: the value returned (or Raised when an exception *)
(* leaves the call) and the warnings list as the call left it.             *)
Ret(v, w) == [v |-> v, w |-> w]

IsNone(x) == x.k = "none"
IsRaised(x) == x.k = "raise"

Min2(a, b) == IF a <= b THEN a ELSE b
Max2(a, b) == IF a >= b THEN a ELSE b

(* the upper bound forgotten: max(lo, x) *)
ClampBelowOnly(x, lo, hi) == Max2(lo, x)

(* max(lo, min(hi, x)) *)
Clamp(x, lo, hi) == Max2(lo, Min2(hi, x))

-----------------------------------------------------------------------------
(* Coercion *)

safe_float(value, default) ==
    CASE value.k = "none" -> default
      [] value.k = "num" -> Num(value.v)
      [] value.k = "int" -> Num(value.n * Q)
      [] value.k \in {"nan", "inf"} -> default
      [] value.k = "huge" -> Raised
      [] value.k = "str" -> Num(value.v)
      [] value.k \in {"strnan", "badstr"} -> default
      [] OTHER -> default

(* int() truncates toward zero *)
Trunc(v) == IF v >= 0 THEN v \div Q ELSE -((-v) \div Q)

safe_int(value, default) ==
    LET float_val == safe_float(value, default)
    IN  IF IsRaised(float_val) THEN Raised
        ELSE IF IsNone(float_val) THEN default
        ELSE PyInt(Trunc(float_val.v))

-----------------------------------------------------------------------------
(* Validators.  Each takes the caller's warnings list and hands it back.   *)

validate_ratio(value, name, warnings) ==
    LET num_val == safe_float(value, None)
    IN  IF IsRaised(num_val) THEN Ret(Raised, warnings)
        ELSE IF IsNone(num_val)
             THEN Ret(Num(Q \div 2), Append(warnings, <<name, "missing, using neutral fallback 0.5">>))
        ELSE IF num_val.v < 0
             THEN Ret(Num(0), Append(warnings, <<name, "negative, clamping to 0">>))
        ELSE IF num_val.v > Q
             THEN Ret(Num(Q), Append(warnings, <<name, "> 1.0, clamping to 1.0">>))
        ELSE Ret(Num(num_val.v), warnings)

validate_count(value, name, warnings) ==
    LET num_val == safe_int(value, None)
    IN  IF IsRaised(num_val) THEN Ret(Raised, warnings)
        ELSE IF IsNone(num_val)
             THEN Ret(PyInt(0), Append(warnings, <<name, "missing, using fallback 0">>))
        ELSE IF num_val.n < 0
             THEN Ret(PyInt(0), Append(warnings, <<name, "negative, clamping to 0">>))
        ELSE Ret(num_val, warnings)

validate_rating(value, name, warnings) ==
    LET num_val == safe_float(value, None)
    IN  IF IsRaised(num_val) THEN Ret(Raised, warnings)
        ELSE IF IsNone(num_val) THEN Ret(None, warnings)
        ELSE IF num_val.v < 0
             THEN Ret(None, Append(warnings, <<name, "negative, treating as missing">>))
        ELSE Ret(num_val, warnings)

validate_ai_score(value, name, warnings) ==
    LET num_val == safe_float(value, None)
    IN  IF IsRaised(num_val) THEN Ret(Raised, warnings)
        ELSE IF IsNone(num_val)
             THEN Ret(Num(50 * Q), Append(warnings, <<name, "missing, using neutral fallback 50.0">>))
        ELSE IF num_val.v < 0
             THEN Ret(Num(0), Append(warnings, <<name, "negative, clamping to 0">>))
        ELSE Ret(Num(num_val.v), warnings)


-----------------------------------------------------------------------------
(* Percentile lookup.  Ratings arrive as floats in units of 1e-4; the      *)
(* percentile handed back is a float in units of 1e-4 (99.93 is 999300).   *)

(* two rows of the table exchanged: 1400 gives 55.0 and 1200 gives 73.0 *)
cf_percentile_rows_exchanged(codeforces_rating) ==
    IF IsNone(codeforces_rating) THEN Num(50 * Q)
    ELSE LET rating == codeforces_rating.v
         IN  IF rating >= 3000 * Q THEN Num(999300)
             ELSE IF rating >= 2400 * Q THEN Num(992000)
             ELSE IF rating >= 2100 * Q THEN Num(970000)
             ELSE IF rating >= 1900 * Q THEN Num(940000)
             ELSE IF rating >= 1600 * Q THEN Num(850000)
             ELSE IF rating >= 1400 * Q THEN Num(550000)
             ELSE IF rating >= 1200 * Q THEN Num(730000)
             ELSE IF rating >= 1000 * Q THEN Num(330000)
             ELSE IF rating >= 800 * Q THEN Num(110000)
             ELSE Num(50000)

cf_percentile_safe(codeforces_rating) ==
    IF IsNone(codeforces_rating) THEN Num(50 * Q)
    ELSE LET rating == codeforces_rating.v
         IN  IF rating >= 3000 * Q THEN Num(999300)
             ELSE IF rating >= 2400 * Q THEN Num(992000)
             ELSE IF rating >= 2100 * Q THEN Num(970000)
             ELSE IF rating >= 1900 * Q THEN Num(940000)
             ELSE IF rating >= 1600 * Q THEN Num(850000)
             ELSE IF rating >= 1400 * Q THEN Num(730000)
             ELSE IF rating >= 1200 * Q THEN Num(550000)
             ELSE IF rating >= 1000 * Q THEN Num(330000)
             ELSE IF rating >= 800 * Q THEN Num(110000)
             ELSE Num(50000)

lc_percentile_safe(leetcode_rating) ==
    IF IsNone(leetcode_rating) THEN Num(50 * Q)
    ELSE LET rating == leetcode_rating.v
         IN  IF rating >= 2500 * Q THEN Num(976300)
             ELSE IF rating >= 2200 * Q THEN Num(911900)
             ELSE IF rating >= 2000 * Q THEN Num(799800)
             ELSE IF rating >= 1850 * Q THEN Num(637700)
             ELSE IF rating >= 1750 * Q THEN Num(499800)
             ELSE IF rating >= 1600 * Q THEN Num(273500)
             ELSE IF rating >= 1500 * Q THEN Num(150900)
             ELSE IF rating >= 1400 * Q THEN Num(66600)
             ELSE IF rating >= 1200 * Q THEN Num(8300)
             ELSE IF rating >= 1000 * Q THEN Num(4000)
             ELSE Num(1000)

(* cf_valid >= 0.75 * lc_valid; 0.75 is three quarters exactly *)
PrefersCF(cf_valid, lc_valid) == 4 * cf_valid.v >= 3 * lc_valid.v

get_best_rating_percentile(CF_rating, LC_rating, warnings) ==
    LET cf == validate_rating(CF_rating, "CF_rating", warnings)
    IN  IF IsRaised(cf.v) THEN cf
        ELSE LET lc == validate_rating(LC_rating, "LC_rating", cf.w)
             IN  IF IsRaised(lc.v) THEN lc
                 ELSE IF ~IsNone(cf.v) /\ ~IsNone(lc.v)
                      THEN IF PrefersCF(cf.v, lc.v)
                           THEN Ret(cf_percentile_safe(cf.v), lc.w)
                           ELSE Ret(lc_percentile_safe(lc.v), lc.w)
                 ELSE IF ~IsNone(cf.v) THEN Ret(cf_percentile_safe(cf.v), lc.w)
                 ELSE IF ~IsNone(lc.v) THEN Ret(lc_percentile_safe(lc.v), lc.w)
                 ELSE Ret(Num(50 * Q),
                          Append(lc.w, <<"CF_rating and LC_rating",
                                         "both missing, using neutral baseline 50 percentile">>))

-----------------------------------------------------------------------------
(* Normalisation: plain numbers in, a fraction in units of 1e-4 out.       *)

(* value in units of 1e-4, min_val and max_val whole numbers *)
norm(value, min_val, max_val) ==
    IF max_val = min_val THEN 0
    ELSE Clamp((value - min_val * Q) \div (max_val - min_val), 0, Q)

(* the percentile taken as if it were on the 0-1 scale already *)
norm_percentile_unscaled(percentile_value) == Clamp(percentile_value, 0, Q)

norm_percentile(percentile_value) == norm(percentile_value, 0, 100)

norm_ratio(ratio_value) == Clamp(ratio_value, 0, Q)

(* count_value is a whole number (a Python int) or a float in units of 1e-4 *)
norm_count(count_value, max_count) == norm(count_value, 0, max_count)

ai_scale_threshold == 10 * Q

(* the scale threshold taken as 1.0: a value in (1, 10] read as a percentage *)
normalize_ai_score_threshold_one(value) ==
    IF value > Q THEN norm_percentile(value) ELSE norm_ratio(value)

normalize_ai_score(value) ==
    IF value > ai_scale_threshold THEN norm_percentile(value) ELSE norm_ratio(value)

-----------------------------------------------------------------------------
(* Sub-score calculators.  Each hands back Ret(score, warnings) with the   *)
(* score in units of 1e-6.  An exception raised by a callee is caught by   *)
(* the calculator's own handler, which appends a warning and returns 0.5.  *)

HALF6 == ONE6 \div 2

calculate_AD(CF_rating, LC_rating, CF_hard_problem_ratio, LC_medium_hard_ratio, warnings) ==
    LET best_percent == get_best_rating_percentile(CF_rating, LC_rating, warnings)
        cf_hard == IF IsRaised(best_percent.v) THEN best_percent
                   ELSE validate_ratio(CF_hard_problem_ratio, "CF_hard_problem_ratio", best_percent.w)
        lc_medium_hard == IF IsRaised(cf_hard.v) THEN cf_hard
                          ELSE validate_ratio(LC_medium_hard_ratio, "LC_medium_hard_ratio", cf_hard.w)
    IN  IF IsRaised(lc_medium_hard.v)
        THEN Ret(HALF6, Append(lc_medium_hard.w, <<"calculate_AD", "Error">>))
        ELSE LET norm_rating == norm_percentile(best_percent.v.v)
                 norm_cf_hard == norm_ratio(cf_hard.v.v)
                 norm_lc_medium_hard == norm_ratio(lc_medium_hard.v.v)
                 AD == 60 * norm_rating + 25 * norm_cf_hard + 15 * norm_lc_medium_hard
             IN  Ret(Clamp(AD, 0, ONE6), lc_medium_hard.w)

calculate_EAP(real_projects_count, project_complexity_score, stack_diversity, code_quality_indicators, warnings) ==
    LET projects == validate_count(real_projects_count, "real_projects_count", warnings)
        complexity == IF IsRaised(projects.v) THEN projects
                      ELSE validate_ai_score(project_complexity_score, "project_complexity_score", projects.w)
        stack == IF IsRaised(complexity.v) THEN complexity
                 ELSE validate_ai_score(stack_diversity, "stack_diversity", complexity.w)
        quality == IF IsRaised(stack.v) THEN stack
                   ELSE validate_ai_score(code_quality_indicators, "code_quality_indicators", stack.w)
    IN  IF IsRaised(quality.v)
        THEN Ret(HALF6, Append(quality.w, <<"calculate_EAP", "Error">>))
        ELSE LET norm_projects == norm_count(projects.v.n * Q, 50)
                 norm_complexity == normalize_ai_score(complexity.v.v)
                 norm_stack == normalize_ai_score(stack.v.v)
                 norm_quality == normalize_ai_score(quality.v.v)
                 EAP == 40 * norm_projects + 25 * norm_complexity + 20 * norm_stack
                        + 15 * norm_quality
             IN  Ret(Clamp(EAP, 0, ONE6), quality.w)

calculate_CCL(active_months, activity_frequency, rating_stability, longest_streak, warnings) ==
    LET months == validate_count(active_months, "active_months", warnings)
        freq == safe_float(activity_frequency, None)
        frequency ==
            IF IsRaised(months.v) THEN months
            ELSE IF IsRaised(freq) THEN Ret(Raised, months.w)
            ELSE IF IsNone(freq)
                 THEN Ret(Num(Q \div 2),
                          Append(months.w, <<"activity_frequency", "missing, using neutral fallback 0.5">>))
            ELSE IF freq.v <= Q THEN Ret(Num(norm_ratio(freq.v)), months.w)
            ELSE Ret(Num(norm_count(freq.v, 30)), months.w)
        stab == safe_float(rating_stability, None)
        stability ==
            IF IsRaised(frequency.v) THEN frequency
            ELSE IF IsRaised(stab) THEN Ret(Raised, frequency.w)
            ELSE IF IsNone(stab)
                 THEN Ret(Num(Q \div 2),
                          Append(frequency.w, <<"rating_stability", "missing, using neutral fallback 0.5">>))
            ELSE IF stab.v <= Q THEN Ret(Num(norm_ratio(stab.v)), frequency.w)
            ELSE Ret(Num(norm_percentile(stab.v)), frequency.w)
        streak == IF IsRaised(stability.v) THEN stability
                  ELSE validate_count(longest_streak, "longest_streak", stability.w)
    IN  IF IsRaised(streak.v)
        THEN Ret(HALF6, Append(streak.w, <<"calculate_CCL", "Error">>))
        ELSE LET norm_months == norm_count(months.v.n * Q, 60)
                 norm_frequency == frequency.v.v
                 norm_stability == stability.v.v
                 norm_streak == norm_count(streak.v.n * Q, 365)
                 CCL == 40 * norm_months + 25 * norm_frequency + 20 * norm_stability
                        + 15 * norm_streak
             IN  Ret(Clamp(CCL, 0, ONE6), streak.w)

calculate_LA(new_tech_usage, reusable_components, oss_engagement, cross_domain_work, warnings) ==
    LET new_tech == validate_ai_score(new_tech_usage, "new_tech_usage", warnings)
        reusable == IF IsRaised(new_tech.v) THEN new_tech
                    ELSE validate_ai_score(reusable_components, "reusable_components", new_tech.w)
        oss == IF IsRaised(reusable.v) THEN reusable
               ELSE validate_ai_score(oss_engagement, "oss_engagement", reusable.w)
        cross == IF IsRaised(oss.v) THEN oss
                 ELSE validate_ai_score(cross_domain_work, "cross_domain_work", oss.w)
    IN  IF IsRaised(cross.v)
        THEN Ret(HALF6, Append(cross.w, <<"calculate_LA", "Error">>))
        ELSE LET norm_new_tech == normalize_ai_score(new_tech.v.v)
                 norm_reusable == normalize_ai_score(reusable.v.v)
                 norm_oss == normalize_ai_score(oss.v.v)
                 norm_cross == normalize_ai_score(cross.v.v)
                 LA == 35 * norm_new_tech + 25 * norm_reusable + 20 * norm_oss + 20 * norm_cross
             IN  Ret(Clamp(LA, 0, ONE6), cross.w)

-----------------------------------------------------------------------------
(* Dominance penalty.  Scores in units of 1e-6, penalty_min and            *)
(* penalty_max in hundredths, the multiplier handed back in units of 1e-7. *)
(* raises: an exception surfaces inside the body (the code's handler then  *)
(* returns 1.0 and records a warning).                                     *)

penalty_threshold == 4 * (ONE6 \div 10)

(* the threshold test taken as <= : a weakest score of exactly 0.4 is penalised *)
apply_min_dominance_penalty_inclusive(AD, EAP, CCL, penalty_min, penalty_max, warnings, raises) ==
    IF raises THEN Ret(ONE7, Append(warnings, <<"apply_min_dominance_penalty", "Error">>))
    ELSE LET min_score == Min2(AD, Min2(EAP, CCL))
         IN  IF min_score <= penalty_threshold
             THEN LET penalty == penalty_min * (ONE7 \div 100)
                                 + (((penalty_max - penalty_min) * (penalty_threshold - min_score) * 10)
                                    \div 4) \div 10
                  IN  Ret(ONE7 - penalty,
                          Append(warnings, <<"Minimum dominance rule applied: penalty", penalty>>))
             ELSE Ret(ONE7, warnings)

(* the step called without a warnings list: the penalty is applied and     *)
(* nothing is recorded                                                     *)
apply_min_dominance_penalty_unrecorded(AD, EAP, CCL, penalty_min, penalty_max, warnings, raises) ==
    IF raises THEN Ret(ONE7, warnings)
    ELSE LET min_score == Min2(AD, Min2(EAP, CCL))
         IN  IF min_score < penalty_threshold
             THEN LET penalty == penalty_min * (ONE7 \div 100)
                                 + (((penalty_max - penalty_min) * (penalty_threshold - min_score) * 10)
                                    \div 4) \div 10
                  IN  Ret(ONE7 - penalty, warnings)
             ELSE Ret(ONE7, warnings)

(* the penalty fraction handed back in place of the multiplier 1 - penalty *)
apply_min_dominance_penalty_fraction(AD, EAP, CCL, penalty_min, penalty_max, warnings, raises) ==
    IF raises THEN Ret(ONE7, Append(warnings, <<"apply_min_dominance_penalty", "Error">>))
    ELSE LET min_score == Min2(AD, Min2(EAP, CCL))
         IN  IF min_score < penalty_threshold
             THEN LET penalty == penalty_min * (ONE7 \div 100)
                                 + (((penalty_max - penalty_min) * (penalty_threshold - min_score) * 10)
                                    \div 4) \div 10
                  IN  Ret(penalty,
                          Append(warnings, <<"Minimum dominance rule applied: penalty", penalty>>))
             ELSE Ret(ONE7, warnings)

apply_min_dominance_penalty(AD, EAP, CCL, penalty_min, penalty_max, warnings, raises) ==
    IF raises THEN Ret(ONE7, Append(warnings, <<"apply_min_dominance_penalty", "Error">>))
    ELSE LET min_score == Min2(AD, Min2(EAP, CCL))
         IN  IF min_score < penalty_threshold
             THEN LET penalty == penalty_min * (ONE7 \div 100)
                                 + (((penalty_max - penalty_min) * (penalty_threshold - min_score) * 10)
                                    \div 4) \div 10
                  IN  Ret(ONE7 - penalty,
                          Append(warnings, <<"Minimum dominance rule applied: penalty", penalty>>))
             ELSE Ret(ONE7, warnings)

-----------------------------------------------------------------------------
(* Wide numbers: a product of the multiplier (1e-7) and the base (1e-8) is *)
(* a count of 1e-15 units, held as five base-1e4 limbs, lowest first.      *)

Limb == Q

RECURSIVE BigCarry(_, _, _)
(* c: limb sums not yet reduced; i: next position; k: carry into it *)
BigCarry(c, i, k) ==
    IF i > Len(c) THEN <<>>
    ELSE <<(c[i] + k) % Limb>> \o BigCarry(c, i + 1, (c[i] + k) \div Limb)

(* a < 1e9 and b <= 1e8 as plain integers; the exact product a * b *)
BigMul(a, b) ==
    LET a0 == a % Limb
        a1 == a \div Limb
        b0 == b % Limb
        b1 == b \div Limb
    IN  BigCarry(<<a0 * b0, a0 * b1 + a1 * b0, a1 * b1, 0, 0>>, 1, 0)

(* x times a small whole number n (n <= 1e4) *)
BigScale(x, n) == BigCarry([i \in 1..Len(x) |-> x[i] * n], 1, 0)

RECURSIVE BigLeqFrom(_, _, _)
BigLeqFrom(x, y, i) ==
    IF i = 0 THEN TRUE
    ELSE IF x[i] # y[i] THEN x[i] < y[i]
    ELSE BigLeqFrom(x, y, i - 1)

BigLeq(x, y) == BigLeqFrom(x, y, Len(x))

BigZero == <<0, 0, 0, 0, 0>>
(* 1.0 and 100.0 in units of 1e-15 *)
BigOne == <<0, 0, 0, 1000, 0>>
BigHundred == <<0, 0, 0, 0, 10>>

(* max(0.0, min(hi, x)) for x >= 0 *)
BigClamp(x, hi) == IF BigLeq(x, hi) THEN x ELSE hi

-----------------------------------------------------------------------------
(* The composite aggregator *)

(* a list that outlives the call: the one the previous call filled *)
LeakedList == IF out.fn = "calculate_HPPS" THEN out.ret.warnings ELSE <<>>

(* warnings = [] and errors = [] at the head of every call *)
NewList == <<>>

(* the error path with the penalty flag left set *)
ZeroResultFlagSet(warnings, errors) ==
    [HPPS |-> BigZero, HPPS_percentage |-> BigZero,
     AD |-> 0, EAP |-> 0, CCL |-> 0, LA |-> 0,
     penalty_applied |-> TRUE, penalty_multiplier |-> ONE7,
     base_HPPS |-> 0, warnings |-> warnings, errors |-> errors]

ZeroResult(warnings, errors) ==
    [HPPS |-> BigZero, HPPS_percentage |-> BigZero,
     AD |-> 0, EAP |-> 0, CCL |-> 0, LA |-> 0,
     penalty_applied |-> FALSE, penalty_multiplier |-> ONE7,
     base_HPPS |-> 0, warnings |-> warnings, errors |-> errors]

(* the weights of CCL and LA exchanged *)
WeightedSumExchanged(AD, EAP, CCL, LA) == 30 * AD + 30 * EAP + 15 * CCL + 25 * LA

(* 0.30 * AD + 0.30 * EAP + 0.25 * CCL + 0.15 * LA in units of 1e-8 *)
WeightedSum(AD, EAP, CCL, LA) == 30 * AD + 30 * EAP + 25 * CCL + 15 * LA

(* the flag set for a multiplier of exactly 1.0 too *)
PenaltyAppliedInclusive(penalty_factor) == penalty_factor <= ONE7

(* penalty_factor < 1.0 *)
PenaltyApplied(penalty_factor) == penalty_factor < ONE7

(* i: the keyword arguments of the call, and i.fault, the place where the  *)
(* interpreter raises an exception of its own (MemoryError and the like):  *)
(* "none", "penalty" (inside apply_min_dominance_penalty) or "aggregate"   *)
(* (inside calculate_HPPS itself, after the penalty step).                 *)
calculate_HPPS(i) ==
    LET warnings == NewList
        errors == NewList
        Result(AD, EAP, CCL, LA, penalty_factor) ==
            LET base_HPPS == WeightedSum(AD.v, EAP.v, CCL.v, LA.v)
                final_HPPS == BigMul(penalty_factor.v, base_HPPS)
            IN  IF i.fault = "aggregate"
                THEN ZeroResult(penalty_factor.w,
                                Append(errors, <<"calculate_HPPS", "Critical error">>))
                ELSE [HPPS |-> BigClamp(final_HPPS, BigOne),
                      HPPS_percentage |-> BigClamp(BigScale(final_HPPS, 100), BigHundred),
                      AD |-> Clamp(AD.v, 0, ONE6),
                      EAP |-> Clamp(EAP.v, 0, ONE6),
                      CCL |-> Clamp(CCL.v, 0, ONE6),
                      LA |-> Clamp(LA.v, 0, ONE6),
                      penalty_applied |-> PenaltyApplied(penalty_factor.v),
                      penalty_multiplier |-> penalty_factor.v,
                      base_HPPS |-> Clamp(base_HPPS, 0, ONE8),
                      warnings |-> penalty_factor.w,
                      errors |-> errors]
    (* the assignments of the try block in their order: each value is      *)
    (* computed once, where it is assigned, and then used by name           *)
    IN  CHOOSE result \in {
        CHOOSE from_EAP \in {
        CHOOSE from_CCL \in {
        CHOOSE from_LA \in {
        CHOOSE from_penalty \in {
            Result(AD, EAP, CCL, LA, penalty_factor) :
        penalty_factor \in
            {apply_min_dominance_penalty(AD.v, EAP.v, CCL.v, 30, 50, LA.w,
                                         i.fault = "penalty")}} : TRUE :
        LA \in
            {calculate_LA(i.new_tech_usage, i.reusable_components, i.oss_engagement,
                          i.cross_domain_work, CCL.w)}} : TRUE :
        CCL \in
            {calculate_CCL(i.active_months, i.activity_frequency, i.rating_stability,
                           i.longest_streak, EAP.w)}} : TRUE :
        EAP \in
            {calculate_EAP(i.real_projects_count, i.project_complexity_score,
                           i.stack_diversity, i.code_quality_indicators, AD.w)}} : TRUE :
        AD \in
            {calculate_AD(i.CF_rating, i.LC_rating, i.CF_hard_problem_ratio,
                          i.LC_medium_hard_ratio, warnings)}} : TRUE

-----------------------------------------------------------------------------
(* Keywords (src/job_matching_layer.py).                                   *)
(*                                                                         *)
(* A Python string is a sequence of characters.  A character is one of     *)
(* " " (whitespace), "-", "_", a punctuation mark ("+", ".", "!") or a     *)
(* word character; a lower-case word such as "python" stands for one       *)
(* lower-case word character and "PYTHON" for its upper-case form, so      *)
(* <<"rest", "_", "api">> is the string rest_api.  A keyword value is      *)
(* Text(s) for the string s, or a value that is no string (None, PyInt).   *)
(* A Python list is PyList(items).                                         *)

Text(s) == [k |-> "text", s |-> s]
PyList(items) == [k |-> "list", items |-> items]
(* the dict {} *)
EmptyDict == [k |-> "emptydict"]

Whitespace == {" "}
Punctuation == {"+", ".", "!"}

(* str.lower on one character *)
lower_char(c) ==
    CASE c = "A" -> "a"
      [] c = "B" -> "b"
      [] c = "PYTHON" -> "python"
      [] c = "BACKEND" -> "backend"
      [] OTHER -> c

lower(s) == [n \in 1..Len(s) |-> lower_char(s[n])]

RECURSIVE lstrip(_, _)
lstrip(s, chars) ==
    IF s # <<>> /\ Head(s) \in chars THEN lstrip(Tail(s), chars) ELSE s

RECURSIVE rstrip(_, _)
rstrip(s, chars) ==
    IF s # <<>> /\ s[Len(s)] \in chars THEN rstrip(SubSeq(s, 1, Len(s) - 1), chars) ELSE s

strip(s, chars) == rstrip(lstrip(s, chars), chars)

(* re.sub(r'[^\w\s-]', '', s) *)
remove_other(s) ==
    LET Kept(c) == c \notin Punctuation
    IN  SelectSeq(s, Kept)

(* re.sub(r'[\s-]+', '_', s) *)
RECURSIVE join_runs(_)
join_runs(s) ==
    IF s = <<>> THEN <<>>
    ELSE IF Head(s) \in Whitespace \cup {"-"}
         THEN <<"_">> \o join_runs(lstrip(s, Whitespace \cup {"-"}))
    ELSE <<Head(s)>> \o join_runs(Tail(s))

(* the underscores stripped before the runs are joined, not after *)
normalize_keyword_stripped_early(keyword) ==
    IF keyword.k # "text" THEN None
    ELSE LET lowered == lower(strip(keyword.s, Whitespace))
             cleaned == join_runs(strip(remove_other(lowered), {"_"}))
         IN  IF cleaned = <<>> THEN None ELSE Text(cleaned)

normalize_keyword(keyword) ==
    IF keyword.k # "text" \/ keyword.s = <<>> THEN None
    ELSE LET lowered == lower(strip(keyword.s, Whitespace))
         IN  IF lowered = <<>> THEN None
             ELSE LET cleaned == strip(join_runs(remove_other(lowered)), {"_"})
                  IN  IF cleaned = <<>> THEN None ELSE Text(cleaned)

Contains(list, x) == \E n \in 1..Len(list) : list[n] = x

(* the loop of normalize_keywords from the items not yet read *)
RECURSIVE normalize_keywords_loop(_, _, _)
normalize_keywords_loop(keywords, normalized, max_count) ==
    IF keywords = <<>> THEN normalized
    ELSE LET normalized_kw == normalize_keyword(Head(keywords))
         IN  IF ~IsNone(normalized_kw) /\ ~Contains(normalized, normalized_kw)
             THEN IF Len(normalized) + 1 >= max_count
                  THEN Append(normalized, normalized_kw)
                  ELSE normalize_keywords_loop(Tail(keywords),
                                               Append(normalized, normalized_kw), max_count)
             ELSE normalize_keywords_loop(Tail(keywords), normalized, max_count)

(* the cap never tested: the loop reads every item *)
normalize_keywords_uncapped(keywords, max_count) ==
    IF keywords.k # "list" THEN PyList(<<>>)
    ELSE PyList(normalize_keywords_loop(keywords.items, <<>>, Len(keywords.items) + 1))

normalize_keywords(keywords, max_count) ==
    IF keywords.k # "list" \/ keywords.items = <<>> THEN PyList(<<>>)
    ELSE PyList(normalize_keywords_loop(keywords.items, <<>>, max_count))

KEYWORD_MAP ==
    <<"rest", "_", "api">> :> <<<<"backend">>>> @@
    <<"api">> :> <<<<"backend">>>> @@
    <<"flask">> :> <<<<"backend">>, <<"python">>>> @@
    <<"django">> :> <<<<"backend">>, <<"python">>>> @@
    <<"fastapi">> :> <<<<"backend">>, <<"python">>>> @@
    <<"express">> :> <<<<"backend">>, <<"javascript">>>> @@
    <<"node">> :> <<<<"backend">>, <<"javascript">>>> @@
    <<"spring">> :> <<<<"backend">>, <<"java">>>> @@
    <<"rails">> :> <<<<"backend">>, <<"ruby">>>> @@
    <<"laravel">> :> <<<<"backend">>, <<"php">>>> @@
    <<"sql">> :> <<<<"database">>>> @@
    <<"mysql">> :> <<<<"database">>>> @@
    <<"postgresql">> :> <<<<"database">>>> @@
    <<"postgres">> :> <<<<"database">>>> @@
    <<"mongodb">> :> <<<<"database">>>> @@
    <<"redis">> :> <<<<"database">>>> @@
    <<"react">> :> <<<<"frontend">>, <<"javascript">>>> @@
    <<"vue">> :> <<<<"frontend">>, <<"javascript">>>> @@
    <<"angular">> :> <<<<"frontend">>, <<"javascript">>>> @@
    <<"typescript">> :> <<<<"javascript">>>> @@
    <<"javascript">> :> <<<<"javascript">>>> @@
    <<"python">> :> <<<<"python">>>> @@
    <<"java">> :> <<<<"java">>>> @@
    <<"cpp">> :> <<<<"c", "+", "+">>>> @@
    <<"c", "+", "+">> :> <<<<"c", "+", "+">>>> @@
    <<"c">> :> <<<<"c">>>> @@
    <<"go">> :> <<<<"go">>>> @@
    <<"rust">> :> <<<<"rust">>>> @@
    <<"html">> :> <<<<"frontend">>>> @@
    <<"css">> :> <<<<"frontend">>>> @@
    <<"docker">> :> <<<<"devops">>>> @@
    <<"kubernetes">> :> <<<<"devops">>>> @@
    <<"k8s">> :> <<<<"devops">>>> @@
    <<"aws">> :> <<<<"cloud">>>> @@
    <<"azure">> :> <<<<"cloud">>>> @@
    <<"gcp">> :> <<<<"cloud">>>> @@
    <<"tensorflow">> :> <<<<"machine", "_", "learning">>>> @@
    <<"pytorch">> :> <<<<"machine", "_", "learning">>>> @@
    <<"sklearn">> :> <<<<"machine", "_", "learning">>>> @@
    <<"pandas">> :> <<<<"data", "_", "engineering">>>> @@
    <<"spark">> :> <<<<"data", "_", "engineering">>>> @@
    <<"etl">> :> <<<<"data", "_", "engineering">>>>

(* str(item) of a list item *)
str(item) ==
    CASE item.k = "text" -> item
      [] item.k = "int" -> Text(<<"3">>)
      [] OTHER -> Text(<<"none">>)

(* truth value of a Python value *)
Truthy(x) ==
    CASE x.k = "none" -> FALSE
      [] x.k = "text" -> x.s # <<>>
      [] x.k = "list" -> x.items # <<>>
      [] x.k = "int" -> x.n # 0
      [] x.k = "emptydict" -> FALSE
      [] OTHER -> TRUE

RECURSIVE normalize_student_items(_)
normalize_student_items(items) ==
    IF items = <<>> THEN <<>>
    ELSE LET item == Head(items)
             normalized == IF Truthy(item) THEN normalize_keyword(str(item)) ELSE None
         IN  (IF IsNone(normalized) THEN <<>> ELSE <<normalized>>)
             \o normalize_student_items(Tail(items))

normalize_student_field(field) ==
    IF ~Truthy(field) THEN <<>>
    ELSE IF field.k = "text"
         THEN (IF IsNone(normalize_keyword(field)) THEN <<>> ELSE <<normalize_keyword(field)>>)
    ELSE IF field.k = "list" THEN normalize_student_items(field.items)
    ELSE <<>>

(* the mapping layer never consulted: direct matches only *)
check_keyword_match_direct_only(keyword, all_student_keywords) ==
    keyword \in all_student_keywords

(* a mapped keyword matching only when every mapped category is present *)
check_keyword_match_every_category(keyword, all_student_keywords) ==
    \/ keyword \in all_student_keywords
    \/ /\ keyword.k = "text"
       /\ keyword.s \in DOMAIN KEYWORD_MAP
       /\ \A n \in 1..Len(KEYWORD_MAP[keyword.s]) :
              Text(KEYWORD_MAP[keyword.s][n]) \in all_student_keywords

(* _check_keyword_match *)
check_keyword_match(keyword, all_student_keywords) ==
    \/ keyword \in all_student_keywords
    \/ /\ keyword.k = "text"
       /\ keyword.s \in DOMAIN KEYWORD_MAP
       /\ \E n \in 1..Len(KEYWORD_MAP[keyword.s]) :
              Text(KEYWORD_MAP[keyword.s][n]) \in all_student_keywords

Elements(list) == {list[n] : n \in 1..Len(list)}

calculate_keyword_match(student, keywords, mandatory_keywords) ==
    IF ~Truthy(student) \/ student.k # "dict" THEN None
    ELSE IF ~Truthy(keywords) \/ keywords.k # "list" THEN None
    ELSE LET mandatory == IF ~Truthy(mandatory_keywords) \/ mandatory_keywords.k # "list"
                          THEN <<>> ELSE mandatory_keywords.items
             skills == normalize_student_field(student.skills)
             tags == normalize_student_field(student.tags)
             languages == normalize_student_field(student.languages)
             all_student_keywords == Elements(skills \o tags \o languages)
             Matches(kw) == check_keyword_match(kw, all_student_keywords)
             Misses(kw) == ~check_keyword_match(kw, all_student_keywords)
             matched == SelectSeq(keywords.items, Matches)
             unmatched == SelectSeq(keywords.items, Misses)
             normalized_mandatory == [n \in 1..Len(mandatory) |-> normalize_keyword(mandatory[n])]
             MandatoryMatches(mkw) == ~IsNone(mkw) /\ check_keyword_match(mkw, all_student_keywords)
             MandatoryMisses(mkw) == ~IsNone(mkw) /\ ~check_keyword_match(mkw, all_student_keywords)
             mandatory_matched == SelectSeq(normalized_mandatory, MandatoryMatches)
             mandatory_unmatched == SelectSeq(normalized_mandatory, MandatoryMisses)
             total_keywords == Len(keywords.items)
             matched_count == Len(matched)
             match_pct == IF total_keywords = 0 THEN 0
                          ELSE (matched_count * Q) \div total_keywords
             mandatory_met == IF mandatory # <<>>
                              THEN Len(mandatory_matched) = Len(mandatory)
                              ELSE TRUE
         IN  [k |-> "dict",
              matched_keywords |-> matched,
              unmatched_keywords |-> unmatched,
              total_keywords |-> total_keywords,
              match_pct |-> Clamp(match_pct, 0, Q),
              mandatory_matched |-> mandatory_met,
              mandatory_matched_keywords |-> mandatory_matched,
              mandatory_unmatched_keywords |-> mandatory_unmatched,
              mandatory_count |-> Len(mandatory),
              mandatory_matched_count |-> Len(mandatory_matched)]

(* the threshold test taken as > : a match of exactly the threshold fails *)
is_qualified_strict(student_match, min_match_threshold) ==
    IF ~Truthy(student_match) THEN FALSE
    ELSE student_match.match_pct > min_match_threshold /\ student_match.mandatory_matched

is_qualified(student_match, min_match_threshold) ==
    IF ~Truthy(student_match) THEN FALSE
    ELSE student_match.match_pct >= min_match_threshold /\ student_match.mandatory_matched

-----------------------------------------------------------------------------
(* Ranking and job requests (src/job_matching_layer.py).  The module holds  *)
(* its own copy of safe_float and safe_int (lines 60-87), the same text as  *)
(* the one of src/function.py modelled above.  Scores are floats in units   *)
(* of 1e-4; a key a dict lacks reads as None.                               *)

IsDict(x) == x.k \in {"dict", "emptydict"}

(* d.get(key) *)
get(d, key) == IF d.k = "dict" /\ key \in DOMAIN d THEN d[key] ELSE None

(* d.get(key, []) *)
get_list(d, key) == IF d.k = "dict" /\ key \in DOMAIN d THEN d[key] ELSE PyList(<<>>)

(* a student of the list after the first loop of rank_students: both       *)
(* scores replaced by their float readings                                  *)
with_float_scores(student) ==
    [student_id |-> get(student, "student_id"),
     general_score |-> safe_float(get(student, "general_score"), Num(0)),
     keyword_match_pct |-> safe_float(get(student, "keyword_match_pct"), Num(0)),
     matched_keywords |-> get_list(student, "matched_keywords"),
     unmatched_keywords |-> get_list(student, "unmatched_keywords")]

(* the position sorted(..., reverse=True) puts first: the earliest item    *)
(* with the greatest key                                                    *)
first_greatest(list, key) ==
    CHOOSE n \in 1..Len(list) :
        /\ \A m \in 1..Len(list) : list[m][key].v <= list[n][key].v
        /\ \A m \in 1..(n - 1) : list[m][key].v < list[n][key].v

(* the latest item with the greatest key *)
last_greatest(list, key) ==
    CHOOSE n \in 1..Len(list) :
        /\ \A m \in 1..Len(list) : list[m][key].v <= list[n][key].v
        /\ \A m \in (n + 1)..Len(list) : list[m][key].v < list[n][key].v

without(list, n) == SubSeq(list, 1, n - 1) \o SubSeq(list, n + 1, Len(list))

(* an ascending sort turned round: items with equal keys change places *)
RECURSIVE sorted_then_reversed(_, _)
sorted_then_reversed(list, key) ==
    IF list = <<>> THEN <<>>
    ELSE CHOOSE r \in {<<list[n]>> \o sorted_then_reversed(without(list, n), key) :
                       n \in {last_greatest(list, key)}} : TRUE

(* sorted(list, key=..., reverse=True): descending and stable *)
RECURSIVE sorted_reverse(_, _)
sorted_reverse(list, key) ==
    IF list = <<>> THEN <<>>
    ELSE CHOOSE r \in {<<list[n]>> \o sorted_reverse(without(list, n), key) :
                       n \in {first_greatest(list, key)}} : TRUE

(* the entry appended for the student at position rank of a sorted list *)
ranking_entry(student, rank_key, rank) ==
    [student_id |-> safe_int(student.student_id, None),
     keyword_match_pct |-> student.keyword_match_pct,
     general_score |-> student.general_score,
     matched_keywords |-> student.matched_keywords,
     unmatched_keywords |-> student.unmatched_keywords] @@ (rank_key :> rank)

HasStudentId(entry) == ~IsNone(entry.student_id)

(* the loop over enumerate(ranked, 1): a student without an id is passed   *)
(* over, its rank number with it                                            *)
ranking(ranked, rank_key) ==
    SelectSeq([rank \in 1..Len(ranked) |-> ranking_entry(ranked[rank], rank_key, rank)],
              HasStudentId)

Rankings(general_ranking, job_specific_ranking) ==
    [k |-> "dict", general_ranking |-> general_ranking,
     job_specific_ranking |-> job_specific_ranking]

(* hands back the dict of the two rankings, or Raised when an exception    *)
(* leaves the function (nothing in it catches one)                          *)
rank_students(qualified_students) ==
    IF ~Truthy(qualified_students) THEN Rankings(<<>>, <<>>)
    ELSE IF qualified_students.k # "list" THEN Raised
    ELSE IF \E n \in 1..Len(qualified_students.items) : ~IsDict(qualified_students.items[n])
         THEN Raised
    ELSE CHOOSE result \in {
             IF \E n \in 1..Len(students) :
                    \/ IsRaised(students[n].general_score)
                    \/ IsRaised(students[n].keyword_match_pct)
                    \/ IsRaised(safe_int(students[n].student_id, None))
             THEN Raised
             ELSE Rankings(ranking(sorted_reverse(students, "general_score"), "general_rank"),
                           ranking(sorted_reverse(students, "keyword_match_pct"), "job_rank")) :
             students \in {[n \in 1..Len(qualified_students.items) |->
                               with_float_scores(qualified_students.items[n])]}} : TRUE

job_request(student, job_id) ==
    [student_id |-> safe_int(get(student, "student_id"), None),
     job_id |-> job_id,
     status |-> "PENDING",
     keyword_match_pct |-> safe_float(get(student, "keyword_match_pct"), Num(0))]

(* one request per student id: a student listed twice gets one request *)
generate_job_requests_deduplicated(qualified_students, job_id, uuid) ==
    IF ~Truthy(qualified_students) THEN PyList(<<>>)
    ELSE IF qualified_students.k # "list" THEN Raised
    ELSE IF \E n \in 1..Len(qualified_students.items) : ~IsDict(qualified_students.items[n])
         THEN Raised
    ELSE LET id == IF Truthy(job_id) THEN job_id ELSE uuid
             requests == [n \in 1..Len(qualified_students.items) |->
                             job_request(qualified_students.items[n], id)]
             FirstOfId(n) == \A m \in 1..(n - 1) : requests[m].student_id # requests[n].student_id
         IN  IF \E n \in 1..Len(requests) :
                    \/ IsRaised(requests[n].student_id)
                    \/ /\ ~IsNone(requests[n].student_id)
                       /\ IsRaised(requests[n].keyword_match_pct)
             THEN Raised
             ELSE LET firsts == SelectSeq([n \in 1..Len(requests) |-> n], FirstOfId)
                  IN  PyList(SelectSeq([m \in 1..Len(firsts) |-> requests[firsts[m]]],
                                       HasStudentId))

(* uuid: what uuid.uuid4() returns when the function has to draw an id;   *)
(* hands back the list of requests, or Raised                              *)
generate_job_requests(qualified_students, job_id, uuid) ==
    IF ~Truthy(qualified_students) THEN PyList(<<>>)
    ELSE IF qualified_students.k # "list" THEN Raised
    ELSE IF \E n \in 1..Len(qualified_students.items) : ~IsDict(qualified_students.items[n])
         THEN Raised
    ELSE LET id == IF Truthy(job_id) THEN job_id ELSE uuid
             requests == [n \in 1..Len(qualified_students.items) |->
                             job_request(qualified_students.items[n], id)]
         IN  IF \E n \in 1..Len(requests) :
                    \/ IsRaised(requests[n].student_id)
                    \/ /\ ~IsNone(requests[n].student_id)
                       /\ IsRaised(requests[n].keyword_match_pct)
             THEN Raised
             ELSE PyList(SelectSeq(requests, HasStudentId))

-----------------------------------------------------------------------------
(* The Gemini provider.  self is the provider: its api_key, whether its    *)
(* client is initialised, and whether google.generativeai can be imported  *)
(* and configured.  An answer is what one call of generate_content ends in: *)
(*   "raise"   generate_content or response.text raises;                    *)
(*   "nojson"  _extract_json finds no JSON text (empty text, no brace);     *)
(*   "badjson" _extract_json returns a text that json.loads rejects;        *)
(*   "json"    json.loads returns the value data.                           *)

Provider(api_key, importable) ==
    [api_key |-> api_key, initialized |-> FALSE, importable |-> importable]

(* _initialize_client: the provider after the call *)
initialize_client(self) ==
    IF self.initialized THEN self
    ELSE IF ~Truthy(self.api_key) THEN self
    ELSE IF self.importable THEN [self EXCEPT !.initialized = TRUE]
    ELSE self

IsStr(x) == x.k = "text"

all_str(list) == \A n \in 1..Len(list.items) : IsStr(list.items[n])

(* _validate_keyword_response *)
validate_keyword_response(data) ==
    IF ~IsDict(data) THEN None
    ELSE LET job_role == get(data, "job_role")
             keywords == get(data, "keywords")
             mandatory_keywords == get(data, "mandatory_keywords")
         IN  IF ~IsStr(job_role) THEN None
             ELSE IF keywords.k # "list" THEN None
             ELSE IF mandatory_keywords.k # "list" THEN None
             ELSE IF ~all_str(keywords) THEN None
             ELSE IF ~all_str(mandatory_keywords) THEN None
             ELSE [k |-> "dict", job_role |-> job_role, keywords |-> keywords,
                   mandatory_keywords |-> mandatory_keywords]

(* a fourth attempt allowed *)
may_retry_thrice(retry_count) == retry_count < 3

(* retry_count < 2 *)
may_retry(retry_count) == retry_count < 2

Retry == [k |-> "retry"]

(* the try block of extract_keywords for one answer of generate_content:   *)
(* Retry when the function calls itself with retry_count + 1, else the     *)
(* value it returns                                                         *)
attempt(answer, retry_count) ==
    IF answer.k \in {"raise", "badjson"}
    THEN (IF may_retry(retry_count) THEN Retry ELSE EmptyDict)
    ELSE IF answer.k = "nojson"
    THEN (IF may_retry(retry_count) THEN Retry ELSE EmptyDict)
    ELSE LET validated == validate_keyword_response(answer.data)
         IN  IF ~Truthy(validated) /\ may_retry(retry_count) THEN Retry
             ELSE IF Truthy(validated) THEN validated ELSE EmptyDict

(* the checks at the head of extract_keywords: TRUE when one returns {} *)
refuses(self, job_description) ==
    \/ ~Truthy(self.api_key)
    \/ ~initialize_client(self).initialized
    \/ ~Truthy(job_description)
    \/ job_description.k # "text"

(* extract_keywords with the answers generate_content gives from now on;   *)
(* hands back the value returned and the number of answers used            *)
RECURSIVE extract_keywords(_, _, _, _)
extract_keywords(self, job_description, retry_count, answers) ==
    IF refuses(self, job_description) THEN [ret |-> EmptyDict, attempts |-> 0]
    ELSE LET outcome == attempt(Head(answers), retry_count)
         IN  IF outcome = Retry
             THEN LET inner == extract_keywords(initialize_client(self), job_description,
                                                retry_count + 1, Tail(answers))
                  IN  [ret |-> inner.ret, attempts |-> inner.attempts + 1]
             ELSE [ret |-> outcome, attempts |-> 1]

-----------------------------------------------------------------------------
(* process_job_profile *)

(* the note about the students list filed under errors *)
get_default_output_as_error(warnings, errors) ==
    [k |-> "dict", job_role |-> Text(<<"Unknown">>), keywords |-> PyList(<<>>),
     general_ranking |-> <<>>, job_specific_ranking |-> <<>>, job_requests |-> <<>>,
     warnings |-> <<>>, errors |-> errors \o warnings]

(* the job role left empty in place of "Unknown" *)
get_default_output_unnamed(warnings, errors) ==
    [k |-> "dict", job_role |-> Text(<<>>), keywords |-> PyList(<<>>),
     general_ranking |-> <<>>, job_specific_ranking |-> <<>>, job_requests |-> <<>>,
     warnings |-> warnings, errors |-> errors]

get_default_output(warnings, errors) ==
    [k |-> "dict", job_role |-> Text(<<"Unknown">>), keywords |-> PyList(<<>>),
     general_ranking |-> <<>>, job_specific_ranking |-> <<>>, job_requests |-> <<>>,
     warnings |-> warnings, errors |-> errors]

(* the literal passed at the call site of is_qualified *)
hardcoded_min_match_threshold == 7500

Skip == [k |-> "skip"]

(* the body of the loop over students: Skip on continue (or when the       *)
(* student does not qualify), Raised when an exception surfaces, else the  *)
(* dict appended to qualified_students_raw                                  *)
admit(student, keywords, mandatory_keywords, min_match_threshold) ==
    IF ~Truthy(student) \/ student.k # "dict" THEN Skip
    ELSE LET student_id == safe_int(get(student, "student_id"), None)
         IN  IF IsRaised(student_id) THEN Raised
             ELSE IF IsNone(student_id) THEN Skip
             ELSE CHOOSE r \in {
                      IF ~Truthy(match_result) THEN Skip
                      ELSE IF ~is_qualified(match_result, min_match_threshold) THEN Skip
                      ELSE LET general_score == safe_float(get(student, "general_score"), Num(0))
                           IN  IF IsRaised(general_score) THEN Raised
                               ELSE [k |-> "dict",
                                     student_id |-> student_id,
                                     keyword_match_pct |-> Num(match_result.match_pct),
                                     general_score |-> general_score,
                                     matched_keywords |-> PyList(match_result.matched_keywords),
                                     unmatched_keywords |-> PyList(match_result.unmatched_keywords)] :
                      match_result \in {calculate_keyword_match(student, keywords,
                                                                mandatory_keywords)}} : TRUE

IsAdmitted(x) == x.k = "dict"

JOB_ERROR == "Job keyword extraction failed. Manual keywords required."

(* env: what the call reads from outside its arguments: the environment    *)
(* variable GEMINI_API_KEY, whether google.generativeai can be imported,    *)
(* the answers of generate_content in their order, and the uuid drawn      *)
process_job_profile(job_description, students, gemini_api_key, env) ==
    LET warnings == <<>>
        errors == <<>>
    IN  IF ~Truthy(job_description) \/ job_description.k # "text"
        THEN get_default_output(warnings,
                                Append(errors, "job_description must be a non-empty string"))
        ELSE IF ~Truthy(students) \/ students.k # "list"
        THEN get_default_output(Append(warnings, "students list is empty or invalid"), errors)
        ELSE LET api_key == IF Truthy(gemini_api_key) THEN gemini_api_key
                            ELSE env.GEMINI_API_KEY
                 provider == Provider(api_key, env.importable)
             IN  IF ~Truthy(provider.api_key)
                 THEN get_default_output(warnings, Append(errors, JOB_ERROR))
                 ELSE CHOOSE result \in {
                     IF ~Truthy(keyword_data)
                     THEN get_default_output(warnings, Append(errors, JOB_ERROR))
                     ELSE CHOOSE from_keywords \in {
                         IF ~Truthy(keywords)
                         THEN get_default_output(warnings, Append(errors, JOB_ERROR))
                         ELSE CHOOSE from_loop \in {
                             IF \E n \in 1..Len(admitted) : IsRaised(admitted[n])
                             THEN get_default_output(warnings,
                                      Append(errors, "Critical error in process_job_profile"))
                             ELSE CHOOSE from_qualified \in {
                                 CHOOSE from_ranked \in {
                                     IF IsRaised(ranked_data) \/ IsRaised(job_requests)
                                     THEN get_default_output(warnings,
                                              Append(errors, "Critical error in process_job_profile"))
                                     ELSE [k |-> "dict",
                                           job_role |-> keyword_data.job_role,
                                           keywords |-> keywords,
                                           general_ranking |-> ranked_data.general_ranking,
                                           job_specific_ranking |-> ranked_data.job_specific_ranking,
                                           job_requests |-> job_requests.items,
                                           warnings |-> warnings,
                                           errors |-> errors] :
                                 ranked_data \in {rank_students(qualified_students_raw)},
                                 job_requests \in {generate_job_requests(qualified_students_raw,
                                                                          env.uuid, env.uuid)}} : TRUE :
                             qualified_students_raw \in {PyList(SelectSeq(admitted, IsAdmitted))}} : TRUE :
                         admitted \in {[n \in 1..Len(students.items) |->
                                          admit(students.items[n], keywords,
                                                normalize_keywords(keyword_data.mandatory_keywords, 10),
                                                hardcoded_min_match_threshold)]}} : TRUE :
                     keywords \in {normalize_keywords(keyword_data.keywords, 25)}} : TRUE :
                 keyword_data \in {extract_keywords(provider, job_description, 0,
                                                    env.answers).ret}} : TRUE

-----------------------------------------------------------------------------
(* Inputs *)

(* the list a caller hands in as the warnings out-parameter *)
CallerLists == {<<>>, <<<<"caller", "earlier warning">>>>}

(* values every validator is tried on that are not plain numbers *)
OddValues == {None, BadStr, StrNaN, NaN, Inf, Huge, Obj}

RatioValues ==
    OddValues
    \cup {Num(v) : v \in {-Q, -1, 0, 1, 1500, 2500, Q \div 2, Q - 1, Q, Q + 1, 15000, 2 * Q}}
    \cup {Str(v) : v \in {-5 * Q, 2500, 2 * Q}}

(* counts: whole and fractional numbers on both sides of 0 *)
CountValues ==
    OddValues
    \cup {Num(v) : v \in {-15000, -Q, -5000, -1, 0, 1, 5000, 27000, 10 * Q, 400 * Q}}
    \cup {Str(v) : v \in {-5000, -3 * Q, 7 * Q}}

(* AI scores on both scales, around the scale threshold 10.0 *)
AIValues ==
    OddValues
    \cup {Num(v) : v \in {-10 * Q, -1, 0, 1, 7000, Q, Q + 1, 5 * Q, 10 * Q, 10 * Q + 1,
                          105000, 50 * Q, 80 * Q, 100 * Q, 150 * Q}}
    \cup {Str(v) : v \in {-3 * Q, 8000, 80 * Q}}

CFRatings ==
    OddValues
    \cup {Num(r * Q) : r \in {-5, 0, 799, 800, 1000, 1200, 1400, 1600, 1874, 1875,
                              1900, 2100, 2400, 2999, 3000, 3500}}
    \cup {Num(-1), Num(12005000), Str(1500 * Q), Str(-3 * Q)}

LCRatings ==
    {None, BadStr, NaN, Huge}
    \cup {Num(r * Q) : r \in {-7, 0, 999, 1000, 1200, 1400, 1500, 1600, 1750, 1850,
                              2000, 2200, 2500, 3000}}
    \cup {Str(2000 * Q)}

(* sub-scores handed to the penalty step, in units of 1e-6 *)
ScoreGrid ==
    {0, 1, ONE6 \div 10, 350000, penalty_threshold - 1, penalty_threshold,
     penalty_threshold + 1, 900000, ONE6}

UnitCalls ==
    [fn : {"validate_ratio"}, value : RatioValues,
     name : {"CF_hard_problem_ratio", "LC_medium_hard_ratio"}, w0 : CallerLists]
    \cup [fn : {"validate_rating"}, value : CFRatings \cup LCRatings,
          name : {"CF_rating", "LC_rating"}, w0 : CallerLists]
    \cup [fn : {"validate_count"}, value : CountValues,
          name : {"real_projects_count", "longest_streak"}, w0 : CallerLists]
    \cup [fn : {"validate_ai_score"}, value : AIValues,
          name : {"stack_diversity", "oss_engagement"}, w0 : CallerLists]
    \cup [fn : {"get_best_rating_percentile"}, CF_rating : CFRatings,
          LC_rating : LCRatings, w0 : CallerLists]
    \cup [fn : {"apply_min_dominance_penalty"}, AD : ScoreGrid, EAP : ScoreGrid,
          CCL : ScoreGrid, w0 : CallerLists, raises : BOOLEAN]

NoCall == [fn |-> "none"]
NoOut == [fn |-> "none"]

-----------------------------------------------------------------------------
(* The harness: one call of one function of src/function.py per step.      *)
(* call is the call about to be made (or just made), out what it handed    *)
(* back, prev an earlier call kept for comparison with its result.         *)

Init ==
    /\ pc = "call"
    /\ call \in UnitCalls
    /\ out = NoOut
    /\ prev = NoCall
    /\ ncalls = 1

Begin(fn) == pc = "call" /\ call.fn = fn

Finish(ret) ==
    /\ out' = [fn |-> call.fn, ret |-> ret]
    /\ pc' = "done"
    /\ UNCHANGED <<call, prev, ncalls>>

Do_validate_ratio ==
    /\ Begin("validate_ratio")
    /\ Finish(validate_ratio(call.value, call.name, call.w0))

Do_validate_rating ==
    /\ Begin("validate_rating")
    /\ Finish(validate_rating(call.value, call.name, call.w0))

Do_validate_count ==
    /\ Begin("validate_count")
    /\ Finish(validate_count(call.value, call.name, call.w0))

(* an AI score as calculate_EAP and calculate_LA treat it: validated, then *)
(* normalised; the validated value is kept beside the normalised one       *)
Do_validate_ai_score ==
    /\ Begin("validate_ai_score")
    /\ LET validated == validate_ai_score(call.value, call.name, call.w0)
       IN  Finish(IF IsRaised(validated.v) THEN validated
                  ELSE [v |-> Num(normalize_ai_score(validated.v.v)), w |-> validated.w,
                        validated |-> validated.v])

Do_get_best_rating_percentile ==
    /\ Begin("get_best_rating_percentile")
    /\ Finish(get_best_rating_percentile(call.CF_rating, call.LC_rating, call.w0))

Do_apply_min_dominance_penalty ==
    /\ Begin("apply_min_dominance_penalty")
    /\ Finish(apply_min_dominance_penalty(call.AD, call.EAP, call.CCL, 30, 50, call.w0,
                                          call.raises))

(* a second percentile lookup with another CF_rating and everything else   *)
(* as in the first, whose call and result are kept in prev                 *)
Again_get_best_rating_percentile ==
    /\ pc = "done"
    /\ call.fn = "get_best_rating_percentile"
    /\ prev.fn = "none"
    /\ \E b \in CFRatings :
        /\ call' = [call EXCEPT !.CF_rating = b]
        /\ prev' = [fn |-> call.fn, call |-> call, out |-> out]
    /\ pc' = "call"
    /\ ncalls' = ncalls + 1
    /\ UNCHANGED out

Next ==
    \/ Do_validate_ratio
    \/ Do_validate_rating
    \/ Do_validate_count
    \/ Do_validate_ai_score
    \/ Do_get_best_rating_percentile
    \/ Do_apply_min_dominance_penalty
    \/ Again_get_best_rating_percentile

Spec == Init /\ [][Next]_vars

-----------------------------------------------------------------------------
(* Claims about the validators, the percentile lookup and the penalty      *)

Done(fn) == pc = "done" /\ out.fn = fn

(* the call returned (no exception left it) *)
Returned == ~IsRaised(out.ret.v)

(* how many warnings the call appended to the list it was handed *)
Appended == Len(out.ret.w) - Len(call.w0)

(* the list handed in is still the head of the list handed back *)
KeepsCallerList == SubSeq(out.ret.w, 1, Len(call.w0)) = call.w0

(* a value the coercion reads as a number: its reading in units of 1e-4 *)
IsNumeric(x) == x.k \in {"num", "str"}

(* a value the coercion reads as no number: None, an unparseable string,   *)
(* NaN or Infinity (as a float or as a string), or a non-numeric object    *)
IsMissing(x) == x.k \in {"none", "badstr", "strnan", "nan", "inf", "obj"}

(* C3: with the default bounds 0.3 and 0.5 the penalty step returns 1.0    *)
(* when m = min(AD, EAP, CCL) >= 0.4 and 1 - (0.3 + 0.2 * (0.4 - m) / 0.4) *)
(* when m < 0.4 (0.2 / 0.4 is one half); so m = 0.4 gives 1.0, m = 0 gives *)
(* 0.5 and AD = 0.35, EAP = CCL = 0.9 gives 0.675.  No LA enters the step. *)
C3_PenaltyFormula ==
    (Done("apply_min_dominance_penalty") /\ ~call.raises) =>
        LET m == Min2(call.AD, Min2(call.EAP, call.CCL))
        IN  /\ m >= penalty_threshold => out.ret.v = ONE7
            /\ m < penalty_threshold =>
                   out.ret.v = ONE7 - (3 * ONE6 + 5 * (penalty_threshold - m))
            /\ m = penalty_threshold => out.ret.v = ONE7
            /\ m = 0 => out.ret.v = 5 * ONE6
            /\ (call.AD = 350000 /\ call.EAP = 900000 /\ call.CCL = 900000)
                   => out.ret.v = 6750000

C3_Witness ==
    /\ Done("apply_min_dominance_penalty")
    /\ ~call.raises
    /\ call.AD = 350000 /\ call.EAP = 900000 /\ call.CCL = 900000
    /\ out.ret.v = 6750000

(* the source get_best_rating_percentile reads for a call's ratings *)
SourceRead(c) ==
    LET cf == validate_rating(c.CF_rating, "CF_rating", <<>>).v
        lc == validate_rating(c.LC_rating, "LC_rating", <<>>).v
    IN  IF ~IsNone(cf) /\ (IsNone(lc) \/ PrefersCF(cf, lc)) THEN "codeforces"
        ELSE IF ~IsNone(lc) THEN "leetcode"
        ELSE "neutral"

(* two finished lookups that differ in CF_rating alone, both numeric, the  *)
(* earlier one with the lower (or equal) rating, neither raising           *)
OrderedPair ==
    /\ Done("get_best_rating_percentile")
    /\ prev.fn = "get_best_rating_percentile"
    /\ prev.call.CF_rating.k = "num"
    /\ call.CF_rating.k = "num"
    /\ prev.call.CF_rating.v <= call.CF_rating.v
    /\ call.LC_rating.k # "huge"

(* C7 as stated: with LC_rating and the rest fixed, a <= b for CF_rating   *)
(* implies the percentile for b is not lower than the percentile for a.    *)
C7_MonotoneInCF ==
    OrderedPair => prev.out.ret.v.v <= out.ret.v.v

(* C7 amended: the same, for pairs a <= b whose lookups read the same      *)
(* source (Codeforces table, LeetCode table or the neutral 50.0).          *)
C7_MonotoneWithinSource ==
    (OrderedPair /\ SourceRead(prev.call) = SourceRead(call))
        => prev.out.ret.v.v <= out.ret.v.v

C7_Witness ==
    /\ OrderedPair
    /\ SourceRead(prev.call) = "codeforces"
    /\ SourceRead(call) = "codeforces"
    /\ ~IsNone(call.LC_rating)
    /\ prev.out.ret.v.v < out.ret.v.v

(* C8: both ratings present: the Codeforces percentile if                  *)
(* CF_rating >= 0.75 * LC_rating, else the LeetCode percentile; one        *)
(* present: that source's percentile; none present: 50.0 and exactly one   *)
(* warning appended.  A rating is present when it is given as a number.    *)
C8_SourceSelection ==
    (Done("get_best_rating_percentile") /\ prev.fn = "none"
     /\ call.CF_rating.k # "huge" /\ call.LC_rating.k # "huge") =>
        LET cf == safe_float(call.CF_rating, None)
            lc == safe_float(call.LC_rating, None)
        IN  /\ (~IsNone(cf) /\ ~IsNone(lc)) =>
                  out.ret.v = IF 4 * cf.v >= 3 * lc.v THEN cf_percentile_safe(cf)
                              ELSE lc_percentile_safe(lc)
            /\ (~IsNone(cf) /\ IsNone(lc)) => out.ret.v = cf_percentile_safe(cf)
            /\ (IsNone(cf) /\ ~IsNone(lc)) => out.ret.v = lc_percentile_safe(lc)
            /\ (IsNone(cf) /\ IsNone(lc)) => (out.ret.v = Num(50 * Q) /\ Appended = 1)

(* C9: a negative rating comes back as 0 with a warning (not as None); a   *)
(* missing or unparseable rating comes back as None with no warning.       *)
C9_NegativeRatingClamped ==
    (Done("validate_rating") /\ Returned) =>
        /\ (IsNumeric(call.value) /\ call.value.v < 0) =>
               (out.ret.v = Num(0) /\ Appended = 1)
        /\ IsMissing(call.value) => (out.ret.v = None /\ Appended = 0)

(* C10: validate_ratio always returns a value in [0, 1]: an in-range value *)
(* unchanged with no warning, 0.0 below 0 and 1.0 above 1 with exactly one *)
(* warning each, 0.5 with exactly one warning for a missing, unparseable,  *)
(* NaN or infinite value.                                                  *)
C10_RatioAlwaysReturned ==
    Done("validate_ratio") =>
        /\ Returned
        /\ out.ret.v.k = "num" /\ out.ret.v.v >= 0 /\ out.ret.v.v <= Q
        /\ KeepsCallerList
        /\ (IsNumeric(call.value) /\ call.value.v >= 0 /\ call.value.v <= Q) =>
               (out.ret.v.v = call.value.v /\ Appended = 0)
        /\ (IsNumeric(call.value) /\ call.value.v < 0) =>
               (out.ret.v.v = 0 /\ Appended = 1)
        /\ ((IsNumeric(call.value) /\ call.value.v > Q) \/ call.value.k = "huge") =>
               (out.ret.v.v = Q /\ Appended = 1)
        /\ IsMissing(call.value) => (out.ret.v.v = Q \div 2 /\ Appended = 1)

(* C11: validate_count always returns an integer >= 0; a negative number, *)
(* whole or fractional (-0.5), comes back as 0 with one warning; a         *)
(* missing, unparseable, NaN or infinite value comes back as 0 with one    *)
(* warning.                                                                *)
C11_CountClamped ==
    Done("validate_count") =>
        /\ Returned
        /\ out.ret.v.k = "int" /\ out.ret.v.n >= 0
        /\ (IsNumeric(call.value) /\ call.value.v < 0) =>
               (out.ret.v.n = 0 /\ Appended = 1)
        /\ IsMissing(call.value) => (out.ret.v.n = 0 /\ Appended = 1)

(* C12: an AI score validated and then normalised lies in [0, 1]; missing, *)
(* NaN or infinite becomes 50.0 with one warning and normalises to 0.5; a  *)
(* negative value becomes 0 with one warning; a value above 10.0 is        *)
(* divided by 100 and capped at 1; a value in [0, 10.0] passes through     *)
(* capped at 1.                                                            *)
C12_AIScoreNormalised ==
    Done("validate_ai_score") =>
        /\ Returned
        /\ out.ret.v.v >= 0 /\ out.ret.v.v <= Q
        /\ IsMissing(call.value) =>
               (out.ret.validated = Num(50 * Q) /\ Appended = 1 /\ out.ret.v.v = Q \div 2)
        /\ (IsNumeric(call.value) /\ call.value.v < 0) =>
               (out.ret.validated = Num(0) /\ Appended = 1 /\ out.ret.v.v = 0)
        /\ (IsNumeric(call.value) /\ call.value.v > ai_scale_threshold) =>
               (Appended = 0 /\ out.ret.v.v = Min2(Q, call.value.v \div 100))
        /\ (IsNumeric(call.value) /\ call.value.v >= 0
                /\ call.value.v <= ai_scale_threshold) =>
               (Appended = 0 /\ out.ret.v.v = Min2(Q, call.value.v))
        /\ call.value.k = "huge" => out.ret.v.v = Q

-----------------------------------------------------------------------------
(* Calls of calculate_HPPS *)

(* the call with no argument given: the signature's defaults *)
Defaults ==
    [CF_rating |-> None, LC_rating |-> None,
     CF_hard_problem_ratio |-> None, LC_medium_hard_ratio |-> None,
     real_projects_count |-> None, active_months |-> None,
     activity_frequency |-> None, rating_stability |-> None, longest_streak |-> None,
     project_complexity_score |-> Num(50 * Q), code_quality_indicators |-> Num(50 * Q),
     stack_diversity |-> Num(50 * Q), reusable_components |-> Num(50 * Q),
     cross_domain_work |-> Num(50 * Q), oss_engagement |-> Num(50 * Q),
     new_tech_usage |-> Num(50 * Q), fault |-> "none"]

(* the call of the module's own example *)
Example ==
    [CF_rating |-> Num(2100 * Q), LC_rating |-> None,
     CF_hard_problem_ratio |-> Num(1500), LC_medium_hard_ratio |-> Num(2500),
     real_projects_count |-> Num(10 * Q), active_months |-> Num(24 * Q),
     activity_frequency |-> Num(8000), rating_stability |-> Num(8500),
     longest_streak |-> Num(120 * Q),
     project_complexity_score |-> Num(75 * Q), code_quality_indicators |-> Num(80 * Q),
     stack_diversity |-> Num(70 * Q), reusable_components |-> Num(60 * Q),
     cross_domain_work |-> Num(65 * Q), oss_engagement |-> Num(50 * Q),
     new_tech_usage |-> Num(70 * Q), fault |-> "none"]

(* a call giving CF_rating and the two ratios and nothing else *)
ScenarioA ==
    [Defaults EXCEPT !.CF_rating = Num(2100 * Q), !.CF_hard_problem_ratio = Num(1500),
                     !.LC_medium_hard_ratio = Num(2500)]

Bases == {Defaults, Example}

(* per kind of input: missing, in range, out of range, negative,           *)
(* string-encoded, NaN, Infinity, beyond the float range                   *)
RatingKinds ==
    {None, Num(2100 * Q), Num(5000 * Q), Num(-5 * Q), Str(1500 * Q), NaN, Inf, Huge}
RatioKinds ==
    {None, Num(1500), Num(2500), Num(15000), Num(-5000), Str(2500), NaN, Inf, Huge}
CountKinds ==
    {None, Num(10 * Q), Num(400 * Q), Num(-3 * Q), Str(24 * Q), NaN, Inf, Huge}
AIKinds ==
    {None, Num(75 * Q), Num(150 * Q), Num(-10 * Q), Str(8000), NaN, Inf, Huge}
DualKinds ==
    {None, Num(8000), Num(15 * Q), Num(-2 * Q), Str(85 * Q), NaN, Inf, Huge}

ADTuples == RatingKinds \X RatingKinds \X RatioKinds \X RatioKinds
EAPTuples == CountKinds \X AIKinds \X AIKinds \X AIKinds
CCLTuples == CountKinds \X DualKinds \X DualKinds \X CountKinds
LATuples == AIKinds \X AIKinds \X AIKinds \X AIKinds

(* calls that vary one input of each calculator at once, and the place of  *)
(* a fault of the interpreter                                              *)
MixedTuples ==
    {None, Num(2100 * Q), Num(3000 * Q), Num(-5 * Q), Huge}
    \X {None, Num(10 * Q), Num(60 * Q), Num(20 * Q), Huge}
    \X {Num(24 * Q), Num(72 * Q), Num(6 * Q), Huge}
    \X {Num(70 * Q), Num(100 * Q), Num(5000), NaN, Huge}
    \X {"none", "penalty", "aggregate"}

(* the call b with the inputs of one calculator replaced by t *)
WithAD(b, t) ==
    [b EXCEPT !.CF_rating = t[1], !.LC_rating = t[2],
              !.CF_hard_problem_ratio = t[3], !.LC_medium_hard_ratio = t[4]]

WithEAP(b, t) ==
    [b EXCEPT !.real_projects_count = t[1], !.project_complexity_score = t[2],
              !.stack_diversity = t[3], !.code_quality_indicators = t[4]]

WithCCL(b, t) ==
    [b EXCEPT !.active_months = t[1], !.activity_frequency = t[2],
              !.rating_stability = t[3], !.longest_streak = t[4]]

WithLA(b, t) ==
    [b EXCEPT !.new_tech_usage = t[1], !.reusable_components = t[2],
              !.oss_engagement = t[3], !.cross_domain_work = t[4]]

WithMixed(b, t) ==
    [b EXCEPT !.CF_rating = t[1], !.real_projects_count = t[2],
              !.active_months = t[3], !.new_tech_usage = t[4], !.fault = t[5]]

HPPSCall(i) == [fn |-> "calculate_HPPS", i |-> i]

InitHPPS ==
    /\ pc = "call"
    /\ \E b \in Bases :
        \/ \E t \in ADTuples : call = HPPSCall(WithAD(b, t))
        \/ \E t \in EAPTuples : call = HPPSCall(WithEAP(b, t))
        \/ \E t \in CCLTuples : call = HPPSCall(WithCCL(b, t))
        \/ \E t \in LATuples : call = HPPSCall(WithLA(b, t))
        \/ \E t \in MixedTuples : call = HPPSCall(WithMixed(b, t))
    /\ out = NoOut
    /\ prev = NoCall
    /\ ncalls = 1

Do_calculate_HPPS ==
    /\ Begin("calculate_HPPS")
    /\ Finish(calculate_HPPS(call.i))

NextHPPS == Do_calculate_HPPS

SpecHPPS == InitHPPS /\ [][NextHPPS]_vars

-----------------------------------------------------------------------------
(* A client calling calculate_HPPS several times over *)

MaxCalls == 3

FewInputs ==
    {[b EXCEPT !.CF_rating = t[1], !.rating_stability = t[2], !.fault = t[3]] :
        b \in Bases,
        t \in {None, Num(-5 * Q), Huge} \X {Num(8500), NaN} \X {"none", "aggregate"}}

InitCalls ==
    /\ pc = "idle"
    /\ call = NoCall
    /\ out = NoOut
    /\ prev = NoCall
    /\ ncalls = 0

CanInvoke == pc \in {"idle", "done"} /\ ncalls < MaxCalls

Invoke ==
    /\ CanInvoke
    /\ \E i \in FewInputs : call' = HPPSCall(i)
    /\ pc' = "call"
    /\ ncalls' = ncalls + 1
    /\ UNCHANGED <<out, prev>>

(* the client keeps the call just finished, and its result, and calls again *)
InvokeKeeping ==
    /\ CanInvoke
    /\ pc = "done"
    /\ \E i \in FewInputs : call' = HPPSCall(i)
    /\ prev' = [fn |-> call.fn, call |-> call, out |-> out]
    /\ pc' = "call"
    /\ ncalls' = ncalls + 1
    /\ UNCHANGED out

NextCalls == Invoke \/ InvokeKeeping \/ Do_calculate_HPPS

SpecCalls == InitCalls /\ [][NextCalls]_vars

-----------------------------------------------------------------------------
(* A client calling calculate_HPPS twice, the second time with one of the  *)
(* AI-derived inputs raised and everything else as before                  *)

AIInputs ==
    {"project_complexity_score", "stack_diversity", "code_quality_indicators",
     "new_tech_usage", "reusable_components", "oss_engagement", "cross_domain_work"}

(* non-negative scores on both scales and on both sides of 10.0 *)
AIGrid == {0, Q \div 2, Q, 5 * Q, 10 * Q, 10 * Q + 1, 105000, 50 * Q, 100 * Q, 150 * Q}

InitAI ==
    /\ pc = "call"
    /\ \E b \in Bases, f \in AIInputs, a \in AIGrid :
        call = HPPSCall([b EXCEPT ![f] = Num(a)])
    /\ out = NoOut
    /\ prev = NoCall
    /\ ncalls = 1

Again_calculate_HPPS ==
    /\ pc = "done"
    /\ call.fn = "calculate_HPPS"
    /\ prev.fn = "none"
    /\ \E f \in AIInputs, b \in AIGrid :
        /\ call.i[f].v < b
        /\ call' = HPPSCall([call.i EXCEPT ![f] = Num(b)])
        /\ prev' = [fn |-> call.fn, call |-> call, out |-> out]
    /\ pc' = "call"
    /\ ncalls' = ncalls + 1
    /\ UNCHANGED out

NextAI == Do_calculate_HPPS \/ Again_calculate_HPPS

SpecAI == InitAI /\ [][NextAI]_vars

-----------------------------------------------------------------------------
(* Calls of the keyword functions of src/job_matching_layer.py *)

MaxChars == 4
MaxItems == 3

(* sequences over a set, up to a length *)
SeqsUpTo(S, n) == UNION {[1..m -> S] : m \in 0..n}

Alphabet == {"a", "A", " ", "-", "_", "+"}

(* keywords handed to normalize_keyword: every short string, and values    *)
(* that are no strings                                                     *)
KeywordValues == {Text(cs) : cs \in SeqsUpTo(Alphabet, MaxChars)} \cup {None, PyInt(3)}

(* items of the lists handed to normalize_keywords: spellings of the same  *)
(* keyword, keywords that normalise to nothing, values that are no strings *)
ListItems ==
    {Text(<<"a">>), Text(<<"A">>), Text(<<" ", "a", " ">>), Text(<<"a", " ", "b">>),
     Text(<<"a", "-", "b">>), Text(<<"b">>), Text(<<"!">>), None}

KeywordLists ==
    {PyList(items) : items \in SeqsUpTo(ListItems, MaxItems)} \cup {None, Text(<<"a">>)}

(* job keywords as the extraction hands them on, one of them not in        *)
(* normal form                                                             *)
JobKeywords ==
    {Text(<<"python">>), Text(<<"fastapi">>), Text(<<"backend">>), Text(<<"react">>),
     Text(<<"PYTHON">>)}

JobKeywordLists ==
    {PyList(items) : items \in SeqsUpTo(JobKeywords, MaxItems)} \cup {None}

MandatoryItems ==
    {Text(<<"python">>), Text(<<" ", "PYTHON", " ">>), Text(<<"fastapi">>), Text(<<"!">>)}

MandatoryLists ==
    {PyList(<<>>), None}
    \cup {PyList(<<m>>) : m \in MandatoryItems}
    \cup {PyList(<<m, n>>) : m \in MandatoryItems, n \in MandatoryItems}

(* a candidate; a key the dict lacks reads as the default [] *)
Student(skills, tags, languages) ==
    [k |-> "dict", skills |-> skills, tags |-> tags, languages |-> languages]

Students ==
    {None, EmptyDict}
    \cup {Student(skills, tags, PyList(<<>>)) :
            skills \in {PyList(<<>>), Text(<<"react">>)},
            tags \in {PyList(<<>>),
                      PyList(<<Text(<<"python">>), Text(<<"backend">>)>>),
                      PyList(<<Text(<<"backend">>)>>),
                      PyList(<<Text(<<"PYTHON">>), None, PyInt(3)>>)}}
    \cup {Student(PyList(<<>>), PyList(<<>>), PyList(<<Text(<<" ", "BACKEND", "!">>)>>))}

default_min_match_threshold == 7500

KeywordCalls ==
    [fn : {"normalize_keyword"}, keyword : KeywordValues]
    \cup [fn : {"normalize_keywords"}, keywords : KeywordLists, max_count : 1..MaxItems]
    \cup [fn : {"calculate_keyword_match"}, student : Students,
          keywords : JobKeywordLists, mandatory_keywords : MandatoryLists]

InitKeywords ==
    /\ pc = "call"
    /\ call \in KeywordCalls
    /\ out = NoOut
    /\ prev = NoCall
    /\ ncalls = 1

Do_normalize_keyword ==
    /\ Begin("normalize_keyword")
    /\ Finish(normalize_keyword(call.keyword))

Do_normalize_keywords ==
    /\ Begin("normalize_keywords")
    /\ Finish(normalize_keywords(call.keywords, call.max_count))

(* the keyword just returned is normalised once more *)
Again_normalize_keyword ==
    /\ pc = "done"
    /\ call.fn = "normalize_keyword"
    /\ prev.fn = "none"
    /\ ~IsNone(out.ret)
    /\ call' = [call EXCEPT !.keyword = out.ret]
    /\ prev' = [fn |-> call.fn, call |-> call, out |-> out]
    /\ pc' = "call"
    /\ ncalls' = ncalls + 1
    /\ UNCHANGED out

(* the list just returned is normalised once more, with the same cap *)
Again_normalize_keywords ==
    /\ pc = "done"
    /\ call.fn = "normalize_keywords"
    /\ prev.fn = "none"
    /\ call' = [call EXCEPT !.keywords = out.ret]
    /\ prev' = [fn |-> call.fn, call |-> call, out |-> out]
    /\ pc' = "call"
    /\ ncalls' = ncalls + 1
    /\ UNCHANGED out

Do_calculate_keyword_match ==
    /\ Begin("calculate_keyword_match")
    /\ Finish(calculate_keyword_match(call.student, call.keywords, call.mandatory_keywords))

(* the match result handed to is_qualified with the default threshold *)
Do_is_qualified ==
    /\ pc = "done"
    /\ call.fn = "calculate_keyword_match"
    /\ call' = [fn |-> "is_qualified", student_match |-> out.ret,
                min_match_threshold |-> default_min_match_threshold]
    /\ out' = [fn |-> "is_qualified",
               ret |-> is_qualified(out.ret, default_min_match_threshold)]
    /\ prev' = [fn |-> call.fn, call |-> call, out |-> out]
    /\ pc' = "done"
    /\ UNCHANGED ncalls

NextKeywords ==
    \/ Do_normalize_keyword
    \/ Do_normalize_keywords
    \/ Again_normalize_keyword
    \/ Again_normalize_keywords
    \/ Do_calculate_keyword_match
    \/ Do_is_qualified

SpecKeywords == InitKeywords /\ [][NextKeywords]_vars

-----------------------------------------------------------------------------
(* Calls of process_job_profile, rank_students and is_qualified *)

MaxStudents == 3

(* a student profile as the API hands it over *)
Candidate(student_id, general_score, tags) ==
    [k |-> "dict", student_id |-> student_id, general_score |-> general_score,
     skills |-> PyList(<<>>), tags |-> tags, languages |-> PyList(<<>>)]

Tags(words) == PyList([n \in 1..Len(words) |-> Text(<<words[n]>>)])

(* candidates matching three of four, four of four and two of four of the  *)
(* keywords of Good4; one without an id; one lacking the mandatory         *)
(* keyword; one whose id and one whose score is beyond the float range;    *)
(* and an entry that is no dict                                            *)
StudentProfiles ==
    {Candidate(PyInt(1), Num(9000), Tags(<<"python", "backend", "docker">>)),
     Candidate(PyInt(2), Num(5000), Tags(<<"python", "backend", "frontend", "docker">>)),
     Candidate(Str(3 * Q), None, Tags(<<"python", "backend">>)),
     Candidate(None, Num(9900), Tags(<<"python", "backend", "frontend", "docker">>)),
     Candidate(PyInt(5), Num(9000), Tags(<<"backend", "frontend", "docker">>)),
     Candidate(Huge, Num(1000), Tags(<<"python">>)),
     Candidate(PyInt(7), Huge, Tags(<<"python", "backend", "frontend", "docker">>)),
     None}

StudentLists == {PyList(s) : s \in SeqsUpTo(StudentProfiles, MaxStudents)}

(* answers of generate_content *)
Raises == [k |-> "raise"]
NoJson == [k |-> "nojson"]
BadJson == [k |-> "badjson"]
Json(data) == [k |-> "json", data |-> data]

KeywordResponse(job_role, keywords, mandatory_keywords) ==
    [k |-> "dict", job_role |-> job_role, keywords |-> keywords,
     mandatory_keywords |-> mandatory_keywords]

(* four distinct keywords once normalised, python mandatory *)
Good4 ==
    Json(KeywordResponse(Text(<<"Dev">>),
                         PyList(<<Text(<<" ", "PYTHON">>), Text(<<"backend">>),
                                  Text(<<"react">>), Text(<<"docker">>),
                                  Text(<<"python">>)>>),
                         PyList(<<Text(<<"PYTHON">>)>>)))

(* the keywords of Scenario C *)
GoodC ==
    Json(KeywordResponse(Text(<<"Dev">>),
                         PyList(<<Text(<<"python">>), Text(<<"fastapi">>), Text(<<"backend">>)>>),
                         PyList(<<Text(<<"python">>)>>)))

(* no mandatory keyword *)
Good2 ==
    Json(KeywordResponse(Text(<<>>),
                         PyList(<<Text(<<"react">>), Text(<<"python">>)>>), PyList(<<>>)))

(* a well-formed response none of whose keywords has a normalised form *)
GoodNoKeywords ==
    Json(KeywordResponse(Text(<<"Dev">>), PyList(<<Text(<<"!">>), Text(<<" ">>)>>),
                         PyList(<<Text(<<"python">>)>>)))

(* responses that fail the structure validation *)
WrongShapes ==
    {Json(PyList(<<>>)),
     Json(EmptyDict),
     Json(KeywordResponse(None, PyList(<<Text(<<"python">>)>>), PyList(<<>>))),
     Json(KeywordResponse(Text(<<"Dev">>), Text(<<"python">>), PyList(<<>>))),
     Json(KeywordResponse(Text(<<"Dev">>), PyList(<<Text(<<"python">>), PyInt(3)>>),
                          PyList(<<>>))),
     Json(KeywordResponse(Text(<<"Dev">>), PyList(<<Text(<<"python">>)>>), None)),
     Json(KeywordResponse(Text(<<"Dev">>), PyList(<<Text(<<"python">>)>>),
                          PyList(<<None>>)))}

Answers == {Raises, NoJson, BadJson, Good4, GoodC, Good2, GoodNoKeywords} \cup WrongShapes

(* what generate_content answers on its first, second, ... call *)
AnswerRuns ==
    {<<Good4, Raises, Raises, Raises>>,
     <<NoJson, Raises, GoodC, Raises>>,
     <<BadJson, Json(EmptyDict), NoJson, Good4>>,
     <<GoodNoKeywords, Good4, Good4, Good4>>,
     <<Json(PyList(<<>>)), Good2, Raises, Raises>>}

(* Config.MIN_MATCH_THRESHOLD as the deployment sets it *)
ConfiguredThresholds == {default_min_match_threshold, Q \div 2}

Env(GEMINI_API_KEY, importable, answers, MIN_MATCH_THRESHOLD) ==
    [GEMINI_API_KEY |-> GEMINI_API_KEY, importable |-> importable, answers |-> answers,
     uuid |-> Text(<<"uuid">>), MIN_MATCH_THRESHOLD |-> MIN_MATCH_THRESHOLD]

ApiKeys == {None, Text(<<>>), Text(<<"key">>)}

JobDescriptions == {None, Text(<<>>), PyInt(3), Text(<<"a">>)}

(* a match result as is_qualified reads it *)
MatchResult(match_pct, mandatory_matched) ==
    [k |-> "dict", match_pct |-> match_pct, mandatory_matched |-> mandatory_matched]

MatchResults ==
    {None, EmptyDict}
    \cup {MatchResult(m, b) : m \in {0, 5000, 7499, 7500, 7501, Q}, b \in BOOLEAN}

(* a dict of qualified_students as rank_students reads it *)
Qualified(student_id, general_score, keyword_match_pct) ==
    [k |-> "dict", student_id |-> student_id, general_score |-> general_score,
     keyword_match_pct |-> keyword_match_pct,
     matched_keywords |-> PyList(<<Text(<<"python">>)>>), unmatched_keywords |-> PyList(<<>>)]

(* equal scores, a missing id, a non-numeric id, non-numeric and missing   *)
(* scores, a score beyond the float range, an empty dict and a non-dict    *)
QualifiedEntries ==
    {Qualified(PyInt(1), Num(9000), Num(7500)),
     Qualified(PyInt(2), Num(5000), Num(Q)),
     Qualified(PyInt(3), Num(9000), Num(7500)),
     Qualified(None, Num(9500), Num(Q)),
     Qualified(Str(5 * Q), BadStr, None),
     Qualified(BadStr, NaN, Num(5000)),
     Qualified(PyInt(7), Huge, Num(8000)),
     EmptyDict,
     None}

QualifiedLists ==
    {None, Text(<<"a">>)} \cup {PyList(s) : s \in SeqsUpTo(QualifiedEntries, MaxStudents)}

InitJobs ==
    /\ pc = "call"
    /\ \/ \E students \in StudentLists, answers \in AnswerRuns, t \in ConfiguredThresholds :
            call = [fn |-> "process_job_profile", job_description |-> Text(<<"a">>),
                    students |-> students, gemini_api_key |-> Text(<<"key">>),
                    env |-> Env(None, TRUE, answers, t)]
       \/ \E job_description \in JobDescriptions,
             students \in {None, Text(<<"a">>), PyList(<<>>),
                           PyList(<<Candidate(PyInt(1), Num(9000),
                                              Tags(<<"python", "backend", "docker">>))>>)},
             gemini_api_key \in ApiKeys, GEMINI_API_KEY \in ApiKeys, importable \in BOOLEAN :
            call = [fn |-> "process_job_profile", job_description |-> job_description,
                    students |-> students, gemini_api_key |-> gemini_api_key,
                    env |-> Env(GEMINI_API_KEY, importable, <<Good4, Raises, Raises, Raises>>,
                                default_min_match_threshold)]
       \/ \E qualified_students \in QualifiedLists :
            call = [fn |-> "rank_students", qualified_students |-> qualified_students]
       \/ \E student_match \in MatchResults :
            call = [fn |-> "is_qualified", student_match |-> student_match,
                    min_match_threshold |-> default_min_match_threshold]
    /\ out = NoOut
    /\ prev = NoCall
    /\ ncalls = 1

Do_process_job_profile ==
    /\ Begin("process_job_profile")
    /\ Finish(process_job_profile(call.job_description, call.students, call.gemini_api_key,
                                  call.env))

Do_rank_students ==
    /\ Begin("rank_students")
    /\ Finish(rank_students(call.qualified_students))

Call_is_qualified ==
    /\ Begin("is_qualified")
    /\ Finish(is_qualified(call.student_match, call.min_match_threshold))

NextJobs == Do_process_job_profile \/ Do_rank_students \/ Call_is_qualified

SpecJobs == InitJobs /\ [][NextJobs]_vars

-----------------------------------------------------------------------------
(* GeminiProvider.extract_keywords step by step: call is the frame being    *)
(* run (the provider, the job description and this frame's retry_count),    *)
(* prev the top-level call's retry_count and the answers generate_content   *)
(* has given so far, ncalls the number of frames entered.                   *)

InitGemini ==
    /\ pc = "call"
    /\ \E api_key \in ApiKeys, importable \in BOOLEAN,
          job_description \in JobDescriptions, retry_count \in 0..2 :
        /\ call = [fn |-> "extract_keywords", self |-> Provider(api_key, importable),
                   job_description |-> job_description, retry_count |-> retry_count]
        /\ prev = [fn |-> "generate_content", retry_count |-> retry_count, answers |-> <<>>]
    /\ out = NoOut
    /\ ncalls = 1

(* a frame of extract_keywords up to the call of generate_content *)
Enter_extract_keywords ==
    /\ Begin("extract_keywords")
    /\ IF refuses(call.self, call.job_description)
       THEN /\ out' = [fn |-> call.fn, ret |-> EmptyDict]
            /\ pc' = "done"
            /\ UNCHANGED call
       ELSE /\ call' = [call EXCEPT !.self = initialize_client(@)]
            /\ pc' = "generate"
            /\ UNCHANGED out
    /\ UNCHANGED <<prev, ncalls>>

(* generate_content answers and the frame runs to its return or to the     *)
(* call of itself; the value an inner frame returns is returned as it is   *)
Generate_content ==
    /\ pc = "generate"
    /\ \E answer \in Answers :
        /\ prev' = [prev EXCEPT !.answers = Append(@, answer)]
        /\ IF attempt(answer, call.retry_count) = Retry
           THEN /\ call' = [call EXCEPT !.retry_count = @ + 1]
                /\ pc' = "call"
                /\ ncalls' = ncalls + 1
                /\ UNCHANGED out
           ELSE /\ out' = [fn |-> call.fn, ret |-> attempt(answer, call.retry_count)]
                /\ pc' = "done"
                /\ UNCHANGED <<call, ncalls>>

NextGemini == Enter_extract_keywords \/ Generate_content

(* the interpreter runs the frame on; a call of generate_content ends *)
SpecGemini == InitGemini /\ [][NextGemini]_vars /\ WF_vars(NextGemini)

-----------------------------------------------------------------------------
(* Claims about the keyword functions *)

(* the normalised forms of the items that have one, in the items' order *)
NormalForms(items) ==
    LET HasForm(x) == ~IsNone(x)
    IN  SelectSeq([n \in 1..Len(items) |-> normalize_keyword(items[n])], HasForm)

(* a list without its repetitions, each element where it is first seen *)
RECURSIVE FirstSeen(_)
FirstSeen(list) ==
    IF list = <<>> THEN <<>>
    ELSE LET before == FirstSeen(SubSeq(list, 1, Len(list) - 1))
         IN  IF Contains(before, list[Len(list)]) THEN before
             ELSE Append(before, list[Len(list)])

(* C15: for a list and a cap max_count >= 1, normalize_keywords returns a  *)
(* list without duplicates and without empty entries, of length at most    *)
(* max_count: the first max_count distinct normalised forms of the items,  *)
(* in first-seen order.                                                    *)
C15_FirstDistinctForms ==
    (Done("normalize_keywords") /\ call.keywords.k = "list") =>
        LET result == out.ret.items
            forms == FirstSeen(NormalForms(call.keywords.items))
        IN  /\ out.ret.k = "list"
            /\ Len(result) <= call.max_count
            /\ \A m, n \in 1..Len(result) : m # n => result[m] # result[n]
            /\ \A n \in 1..Len(result) : result[n].k = "text" /\ result[n].s # <<>>
            /\ result = SubSeq(forms, 1, Min2(call.max_count, Len(forms)))

(* an item without a form, two distinct forms, and the cap cutting one off *)
C15_Witness ==
    /\ Done("normalize_keywords")
    /\ call.keywords = PyList(<<Text(<<"!">>), Text(<<"A">>), Text(<<"b">>)>>)
    /\ call.max_count = 1
    /\ out.ret = PyList(<<Text(<<"a">>)>>)

(* C16: normalising a normalised list again, with the same cap, gives the  *)
(* same list; normalize_keyword applied to one of its own outputs returns  *)
(* it unchanged.                                                           *)
C16_Idempotent ==
    /\ (Done("normalize_keywords") /\ prev.fn = "normalize_keywords") =>
           (call.keywords = prev.out.ret /\ out.ret = prev.out.ret)
    /\ (Done("normalize_keyword") /\ prev.fn = "normalize_keyword") =>
           (call.keyword = prev.out.ret /\ out.ret = call.keyword)

C16_Witness ==
    /\ Done("normalize_keywords")
    /\ prev.fn = "normalize_keywords"
    /\ prev.call.keywords =
           PyList(<<Text(<<" ", "a", " ">>), Text(<<"a", " ", "b">>), Text(<<"A">>)>>)
    /\ call.keywords = PyList(<<Text(<<"a">>), Text(<<"a", "_", "b">>)>>)
    /\ out.ret = call.keywords

(* the union of the candidate's normalised skills, tags and languages *)
CandidateSet(student) ==
    Elements(normalize_student_field(student.skills))
    \cup Elements(normalize_student_field(student.tags))
    \cup Elements(normalize_student_field(student.languages))

(* the keyword is in the set, or a key of KEYWORD_MAP with a mapped        *)
(* category in the set                                                     *)
MatchesCandidate(kw, set) ==
    \/ kw \in set
    \/ /\ kw.k = "text"
       /\ kw.s \in DOMAIN KEYWORD_MAP
       /\ {Text(c) : c \in Elements(KEYWORD_MAP[kw.s])} \cap set # {}

(* a match result was returned *)
Matched == Done("calculate_keyword_match") /\ ~IsNone(out.ret)

(* C17: a job keyword is in matched_keywords exactly when it is in the     *)
(* candidate's set or is a key of KEYWORD_MAP with a mapped category in    *)
(* that set; otherwise it is in unmatched_keywords.                        *)
C17_MatchRule ==
    Matched =>
        \A n \in 1..Len(call.keywords.items) :
            LET kw == call.keywords.items[n]
                hit == MatchesCandidate(kw, CandidateSet(call.student))
            IN  /\ hit <=> Contains(out.ret.matched_keywords, kw)
                /\ ~hit <=> Contains(out.ret.unmatched_keywords, kw)

(* a keyword matched through the mapping only, beside two that miss *)
C17_Witness ==
    /\ Matched
    /\ CandidateSet(call.student) = {Text(<<"backend">>)}
    /\ call.keywords = PyList(<<Text(<<"fastapi">>), Text(<<"react">>), Text(<<"python">>)>>)
    /\ out.ret.matched_keywords = <<Text(<<"fastapi">>)>>
    /\ out.ret.unmatched_keywords = <<Text(<<"react">>), Text(<<"python">>)>>

(* Scenario C: keywords [python, fastapi, backend], mandatory [python], a  *)
(* candidate with tags python and backend                                  *)
ScenarioC ==
    [fn |-> "calculate_keyword_match",
     student |-> Student(PyList(<<>>), PyList(<<Text(<<"python">>), Text(<<"backend">>)>>),
                         PyList(<<>>)),
     keywords |-> PyList(<<Text(<<"python">>), Text(<<"fastapi">>), Text(<<"backend">>)>>),
     mandatory_keywords |-> PyList(<<Text(<<"python">>)>>)]

(* the match of Scenario C has been handed to is_qualified *)
ScenarioCJudged == pc = "done" /\ out.fn = "is_qualified" /\ prev.call = ScenarioC

(* C18 as stated: Scenario C gives matched [python, backend], unmatched    *)
(* [fastapi], match_pct 2/3 and mandatory_matched true, and the candidate  *)
(* is not qualified at the default threshold 0.75.                         *)
C18_ScenarioC_Disqualified ==
    ScenarioCJudged =>
        /\ prev.out.ret.matched_keywords = <<Text(<<"python">>), Text(<<"backend">>)>>
        /\ prev.out.ret.unmatched_keywords = <<Text(<<"fastapi">>)>>
        /\ prev.out.ret.match_pct = (2 * Q) \div 3
        /\ prev.out.ret.mandatory_matched
        /\ out.ret = FALSE

(* C18 amended: in Scenario C fastapi matches through KEYWORD_MAP (its     *)
(* categories backend and python are both in the candidate's set), so      *)
(* matched is [python, fastapi, backend], unmatched is empty, match_pct is *)
(* 1.0, mandatory_matched is true and the candidate is qualified at the    *)
(* default threshold 0.75.                                                 *)
C18_ScenarioC_Qualified ==
    ScenarioCJudged =>
        /\ prev.out.ret.matched_keywords =
               <<Text(<<"python">>), Text(<<"fastapi">>), Text(<<"backend">>)>>
        /\ prev.out.ret.unmatched_keywords = <<>>
        /\ prev.out.ret.match_pct = Q
        /\ prev.out.ret.mandatory_matched
        /\ out.ret = TRUE

C18_Witness ==
    /\ ScenarioCJudged
    /\ prev.out.ret.total_keywords = 3
    /\ prev.out.ret.mandatory_matched_keywords = <<Text(<<"python">>)>>
    /\ call.min_match_threshold = default_min_match_threshold
    /\ out.ret = TRUE

(* C19: for a candidate and any keyword list a match result is returned;   *)
(* for a non-empty list match_pct is len(matched) / len(keywords) and      *)
(* matched and unmatched together hold every input keyword once, in input  *)
(* order; for an empty list match_pct is 0.0.                              *)
C19_MatchComplete ==
    (Done("calculate_keyword_match") /\ call.student.k = "dict"
     /\ call.keywords.k = "list") =>
        /\ ~IsNone(out.ret)
        /\ call.keywords.items = <<>> => out.ret.match_pct = 0
        /\ call.keywords.items # <<>> =>
            LET InMatched(kw) == Contains(out.ret.matched_keywords, kw)
                InUnmatched(kw) == Contains(out.ret.unmatched_keywords, kw)
            IN  /\ out.ret.match_pct =
                       (Len(out.ret.matched_keywords) * Q) \div Len(call.keywords.items)
                /\ Len(out.ret.matched_keywords) + Len(out.ret.unmatched_keywords)
                       = Len(call.keywords.items)
                /\ out.ret.matched_keywords = SelectSeq(call.keywords.items, InMatched)
                /\ out.ret.unmatched_keywords = SelectSeq(call.keywords.items, InUnmatched)

(* C20: mandatory_matched is true exactly when every mandatory keyword     *)
(* that has a normalised form matches the candidate's set (so also for an  *)
(* empty list and for items that normalise to nothing).                    *)
C20_MandatoryRule ==
    Matched =>
        LET mandatory == IF call.mandatory_keywords.k = "list"
                         THEN call.mandatory_keywords.items ELSE <<>>
            forms == NormalForms(mandatory)
        IN  out.ret.mandatory_matched <=>
                \A n \in 1..Len(forms) :
                    MatchesCandidate(forms[n], CandidateSet(call.student))

-----------------------------------------------------------------------------
(* Claims about calculate_HPPS *)

R == out.ret

IsBig(x) == Len(x) = 5 /\ \A n \in 1..5 : x[n] >= 0 /\ x[n] < Limb

InUnit6(x) == x >= 0 /\ x <= ONE6

AllZero ==
    /\ R.HPPS = BigZero /\ R.HPPS_percentage = BigZero
    /\ R.AD = 0 /\ R.EAP = 0 /\ R.CCL = 0 /\ R.LA = 0
    /\ R.base_HPPS = 0
    /\ R.penalty_applied = FALSE

(* C1: whatever the inputs, AD, EAP, CCL, LA, HPPS and base_HPPS lie in    *)
(* [0, 1], HPPS_percentage in [0, 100] and penalty_multiplier in (0, 1].   *)
C1_Bounded ==
    Done("calculate_HPPS") =>
        /\ InUnit6(R.AD) /\ InUnit6(R.EAP) /\ InUnit6(R.CCL) /\ InUnit6(R.LA)
        /\ IsBig(R.HPPS) /\ BigLeq(R.HPPS, BigOne)
        /\ IsBig(R.HPPS_percentage) /\ BigLeq(R.HPPS_percentage, BigHundred)
        /\ R.base_HPPS >= 0 /\ R.base_HPPS <= ONE8
        /\ R.penalty_multiplier > 0 /\ R.penalty_multiplier <= ONE7

(* an out-of-range count, a string, a NaN and a negative value in one call *)
C1_Witness ==
    /\ Done("calculate_HPPS")
    /\ call.i.real_projects_count = Num(400 * Q)
    /\ call.i.project_complexity_score = Num(150 * Q)
    /\ call.i.stack_diversity.k = "str"
    /\ call.i.code_quality_indicators.k = "nan"
    /\ R.EAP > HALF6
    /\ R.errors = <<>>

(* C2: in every result, on the normal and on the error path,               *)
(* HPPS_percentage = HPPS * 100 and penalty_applied is true exactly when   *)
(* penalty_multiplier < 1.0.                                               *)
C2_Consistent ==
    Done("calculate_HPPS") =>
        /\ R.HPPS_percentage = BigScale(R.HPPS, 100)
        /\ R.penalty_applied = (R.penalty_multiplier < ONE7)

C2_Witness ==
    /\ Done("calculate_HPPS")
    /\ R.errors = <<>>
    /\ R.penalty_applied
    /\ R.HPPS # BigZero
    /\ R.HPPS_percentage = BigScale(R.HPPS, 100)

(* C4: on the normal path base_HPPS is                                     *)
(* 0.30*AD + 0.30*EAP + 0.25*CCL + 0.15*LA clamped to [0, 1], HPPS is      *)
(* penalty_multiplier times that sum clamped to [0, 1], HPPS_percentage    *)
(* the same product times 100 clamped to [0, 100], over the reported       *)
(* sub-scores.                                                             *)
C4_Composite ==
    (Done("calculate_HPPS") /\ R.errors = <<>>) =>
        LET sum == 30 * R.AD + 30 * R.EAP + 25 * R.CCL + 15 * R.LA
            product == BigMul(R.penalty_multiplier, sum)
        IN  /\ R.base_HPPS = Max2(0, Min2(ONE8, sum))
            /\ R.HPPS = (IF BigLeq(product, BigOne) THEN product ELSE BigOne)
            /\ R.HPPS_percentage =
                   (IF BigLeq(BigScale(product, 100), BigHundred)
                    THEN BigScale(product, 100) ELSE BigHundred)

(* the module's own example: no penalty, HPPS = base_HPPS *)
C4_Witness ==
    /\ Done("calculate_HPPS")
    /\ call.i = Example
    /\ R.errors = <<>>
    /\ ~R.penalty_applied
    /\ R.AD = 657000
    /\ R.CCL # R.LA
    /\ R.HPPS = BigMul(ONE7, R.base_HPPS)

(* the inputs each calculator reads *)
ADInputs == {"CF_rating", "LC_rating", "CF_hard_problem_ratio", "LC_medium_hard_ratio"}
EAPInputs == {"real_projects_count", "project_complexity_score", "stack_diversity",
              "code_quality_indicators"}
CCLInputs == {"active_months", "activity_frequency", "rating_stability", "longest_streak"}
LAInputs == {"new_tech_usage", "reusable_components", "oss_engagement", "cross_domain_work"}

(* the calculator reading these inputs faults: one of them cannot be       *)
(* converted (the conversion raises OverflowError)                         *)
Faults(i, names) == \E n \in names : i[n].k = "huge"

SubScoreFault(i) ==
    Faults(i, ADInputs) \/ Faults(i, EAPInputs) \/ Faults(i, CCLInputs) \/ Faults(i, LAInputs)

Warned(what) == \E n \in 1..Len(R.warnings) : R.warnings[n] = what

(* C5 as stated: a fault in a sub-score computation or in the penalty step *)
(* gives a result with a non-empty errors list and every score field 0,    *)
(* penalty_applied false; a result with errors is never partly computed.   *)
C5_FaultGivesZeroResult ==
    Done("calculate_HPPS") =>
        /\ (SubScoreFault(call.i) \/ call.i.fault = "penalty") =>
               (R.errors # <<>> /\ AllZero)
        /\ R.errors # <<>> => AllZero

(* C5 amended: no fault leaves calculate_HPPS.  A fault inside a sub-score *)
(* calculator is absorbed there: that sub-score is 0.5, a warning names    *)
(* the calculator and errors stays empty.  A fault inside the penalty step *)
(* is absorbed there: the multiplier is 1.0, with a warning, and errors    *)
(* stays empty.  Only a fault raised in calculate_HPPS itself gives a      *)
(* non-empty errors list, and every result with errors has all score       *)
(* fields 0, penalty_applied false and multiplier 1.0.                     *)
C5_FaultsAbsorbed ==
    Done("calculate_HPPS") =>
        /\ R.errors # <<>> <=> call.i.fault = "aggregate"
        /\ R.errors # <<>> => (AllZero /\ R.penalty_multiplier = ONE7)
        /\ R.errors = <<>> =>
            /\ Faults(call.i, ADInputs) =>
                   (R.AD = HALF6 /\ Warned(<<"calculate_AD", "Error">>))
            /\ Faults(call.i, EAPInputs) =>
                   (R.EAP = HALF6 /\ Warned(<<"calculate_EAP", "Error">>))
            /\ Faults(call.i, CCLInputs) =>
                   (R.CCL = HALF6 /\ Warned(<<"calculate_CCL", "Error">>))
            /\ Faults(call.i, LAInputs) =>
                   (R.LA = HALF6 /\ Warned(<<"calculate_LA", "Error">>))
            /\ call.i.fault = "penalty" =>
                   (R.penalty_multiplier = ONE7
                    /\ Warned(<<"apply_min_dominance_penalty", "Error">>))

C5_Witness ==
    /\ Done("calculate_HPPS")
    /\ Faults(call.i, ADInputs)
    /\ call.i.fault = "penalty"
    /\ R.errors = <<>>
    /\ R.AD = HALF6
    /\ R.HPPS # BigZero

C13_ScenarioA_658 ==
    (Done("calculate_HPPS") /\ call.i = ScenarioA) =>
        /\ R.AD = 60 * 9700 + 25 * 1500 + 15 * 2500
        /\ R.AD >= 657500 /\ R.AD < 658500

(* C13 amended: in Scenario A the best percentile is 97.0 and AD is        *)
(* 0.6 * 0.97 + 0.25 * 0.15 + 0.15 * 0.25 = 0.582 + 0.0375 + 0.0375, which *)
(* is 0.657.                                                               *)
C13_ScenarioA_657 ==
    (Done("calculate_HPPS") /\ call.i = ScenarioA) =>
        /\ cf_percentile_safe(Num(2100 * Q)) = Num(97 * Q)
        /\ R.AD = 60 * norm_percentile(97 * Q) + 25 * norm_ratio(1500)
                  + 15 * norm_ratio(2500)
        /\ R.AD = 657000

C13_Witness ==
    /\ Done("calculate_HPPS")
    /\ call.i = ScenarioA
    /\ R.errors = <<>>
    /\ R.AD = 657000
    /\ R.EAP = 300000
    /\ R.penalty_applied

(* warnings appended by the validators and calculators, by their first     *)
(* field: the name of an input or of a calculator                          *)
FromCalculators(w) ==
    w[1] \in ADInputs \cup EAPInputs \cup CCLInputs \cup LAInputs
             \cup {"CF_rating and LC_rating", "calculate_AD", "calculate_EAP",
                   "calculate_CCL", "calculate_LA"}

(* C14: a result with penalty_applied true carries a dominance-penalty     *)
(* warning stating the penalty (1 - penalty_multiplier); it is the last    *)
(* warning of the list and every warning before it comes from the four     *)
(* sub-score calculators.                                                  *)
C14_PenaltyWarningLast ==
    (Done("calculate_HPPS") /\ R.penalty_applied) =>
        LET n == Len(R.warnings)
        IN  /\ n >= 1
            /\ R.warnings[n] = <<"Minimum dominance rule applied: penalty",
                                 ONE7 - R.penalty_multiplier>>
            /\ \A k \in 1..(n - 1) : FromCalculators(R.warnings[k])

(* a penalised result whose last calculator left a warning of its own *)
C14_Witness ==
    /\ Done("calculate_HPPS")
    /\ R.penalty_applied
    /\ Faults(call.i, LAInputs)
    /\ Len(R.warnings) >= 3
    /\ R.warnings[Len(R.warnings) - 1] = <<"calculate_LA", "Error">>
    /\ R.warnings[Len(R.warnings)][1] = "Minimum dominance rule applied: penalty"

(* base_HPPS (units of 1e-8) on the scale of HPPS (units of 1e-15) *)
BaseAsBig == BigMul(ONE7, R.base_HPPS)

Raised1(f) ==
    /\ prev.call.i[f].v < call.i[f].v
    /\ \A g \in DOMAIN call.i \ {f} : prev.call.i[g] = call.i[g]

(* two finished calls, the later with one AI-derived input raised *)
RaisedPair ==
    /\ Done("calculate_HPPS")
    /\ prev.fn = "calculate_HPPS"
    /\ \E f \in AIInputs : Raised1(f)

(* both values of the raised input are read on the same scale *)
SameScale ==
    \A f \in AIInputs :
        Raised1(f) => (prev.call.i[f].v > ai_scale_threshold
                        <=> call.i[f].v > ai_scale_threshold)

(* C28 as stated: raising one AI-derived input, all else fixed, never      *)
(* lowers HPPS, also across the scale threshold 10.0.                      *)
C28_MonotoneInAI ==
    RaisedPair => BigLeq(prev.out.ret.HPPS, R.HPPS)

(* C28 amended: raising one AI-derived input never lowers HPPS when the    *)
(* old and the new value are on the same side of 10.0 (both <= 10.0, read  *)
(* as 0-1, or both > 10.0, read as 0-100).                                 *)
C28_MonotoneWithinScale ==
    (RaisedPair /\ SameScale) => BigLeq(prev.out.ret.HPPS, R.HPPS)

(* a raise on the 0-100 scale that raises HPPS and changes the multiplier *)
C28_Witness ==
    /\ RaisedPair
    /\ SameScale
    /\ prev.call.i.stack_diversity.v = 50 * Q
    /\ call.i.stack_diversity.v = 100 * Q
    /\ prev.out.ret.HPPS # R.HPPS
    /\ prev.out.ret.penalty_multiplier < R.penalty_multiplier

-----------------------------------------------------------------------------
(* Claims about rank_students *)

(* the score rank_students counts for a value of the input: its number,    *)
(* and 0.0 when it is missing or not numeric                               *)
CountedScore(x) ==
    CASE x.k = "num" -> x.v
      [] x.k = "int" -> x.n * Q
      [] x.k = "str" -> x.v
      [] OTHER -> 0

HasValidId(student) == ~IsNone(safe_int(get(student, "student_id"), None))

RankStudentsReturned == Done("rank_students") /\ ~IsRaised(R) /\ Truthy(call.qualified_students)

NonIncreasing(view, key) == \A n \in 1..(Len(view) - 1) : view[n][key].v >= view[n + 1][key].v

(* view lists the students of input that have an id, each at the place of  *)
(* one of them and with its counted scores, students of equal key in the   *)
(* order of input                                                           *)
KeepsInputOrder(view, key, input) ==
    \E place \in [1..Len(view) -> 1..Len(input)] :
        /\ \A n, m \in 1..Len(view) : n < m => place[n] # place[m]
        /\ \A i \in 1..Len(input) :
               HasValidId(input[i]) => \E n \in 1..Len(view) : place[n] = i
        /\ \A n \in 1..Len(view) :
               /\ view[n].student_id = safe_int(get(input[place[n]], "student_id"), None)
               /\ view[n].general_score.v = CountedScore(get(input[place[n]], "general_score"))
               /\ view[n].keyword_match_pct.v
                      = CountedScore(get(input[place[n]], "keyword_match_pct"))
        /\ \A n, m \in 1..Len(view) :
               n < m /\ view[n][key].v = view[m][key].v => place[n] < place[m]

(* C23: rank_students returns general_ranking in non-increasing order of   *)
(* general_score and job_specific_ranking in non-increasing order of       *)
(* keyword_match_pct, missing and non-numeric scores counted as 0.0, and   *)
(* in each view students of equal key stand in the order of the input.     *)
C23_SortedAndStable ==
    RankStudentsReturned =>
        /\ NonIncreasing(R.general_ranking, "general_score")
        /\ NonIncreasing(R.job_specific_ranking, "keyword_match_pct")
        /\ KeepsInputOrder(R.general_ranking, "general_score", call.qualified_students.items)
        /\ KeepsInputOrder(R.job_specific_ranking, "keyword_match_pct",
                           call.qualified_students.items)

(* three students, the first and the last of equal scores, between them   *)
(* one whose general_score is no number and whose keyword_match_pct is     *)
(* missing                                                                  *)
C23_Witness ==
    /\ RankStudentsReturned
    /\ C23_SortedAndStable
    /\ Len(R.general_ranking) = 3
    /\ R.general_ranking[1].student_id = PyInt(1)
    /\ R.general_ranking[2].student_id = PyInt(3)
    /\ R.general_ranking[1].general_score = R.general_ranking[2].general_score
    /\ R.general_ranking[3].general_score = Num(0)
    /\ call.qualified_students.items[2].general_score = BadStr
    /\ call.qualified_students.items[2].keyword_match_pct = None
    /\ R.job_specific_ranking[2].student_id = PyInt(3)
    /\ R.job_specific_ranking[3].keyword_match_pct = Num(0)

(* C24: in each view of rank_students the entry at position k carries the  *)
(* rank number k.                                                           *)
C24_RanksConsecutive ==
    (Done("rank_students") /\ ~IsRaised(R)) =>
        /\ \A n \in 1..Len(R.general_ranking) : R.general_ranking[n].general_rank = n
        /\ \A n \in 1..Len(R.job_specific_ranking) : R.job_specific_ranking[n].job_rank = n

-----------------------------------------------------------------------------
(* Claims about process_job_profile *)

(* a call that returned a computed result: no error and no default output  *)
Computed == Done("process_job_profile") /\ R.errors = <<>> /\ R.warnings = <<>>

(* the mandatory keywords of the call as the loop over students uses them  *)
MandatoryOfCall ==
    normalize_keywords(
        extract_keywords(Provider(IF Truthy(call.gemini_api_key) THEN call.gemini_api_key
                                  ELSE call.env.GEMINI_API_KEY, call.env.importable),
                         call.job_description, 0, call.env.answers).ret.mandatory_keywords,
        10)

(* student has a valid id, and its match with the keywords of the result   *)
(* reaches threshold with every mandatory keyword matched                  *)
Qualifies(student, threshold) ==
    /\ student.k = "dict"
    /\ HasValidId(student)
    /\ \E match \in {calculate_keyword_match(student, R.keywords, MandatoryOfCall)} :
           /\ match.k = "dict"
           /\ match.match_pct >= threshold
           /\ match.mandatory_matched

IdsOf(list) == {list[n].student_id : n \in 1..Len(list)}

QualifyingAt(threshold) ==
    {i \in 1..Len(call.students.items) : Qualifies(call.students.items[i], threshold)}

(* the students ranked are those that qualify at threshold: the same ids,  *)
(* as many entries                                                          *)
RanksThoseAtOrAbove(threshold) ==
    /\ \A view \in {R.general_ranking, R.job_specific_ranking} :
           /\ Len(view) = Cardinality(QualifyingAt(threshold))
           /\ IdsOf(view) = {safe_int(call.students.items[i].student_id, None) :
                                i \in QualifyingAt(threshold)}

(* C21: a candidate is in the rankings of process_job_profile if and only  *)
(* if it has a valid student_id, its match_pct is at least 0.75 (0.75      *)
(* itself included) and mandatory_matched is true; is_qualified returns    *)
(* False for a missing match result.                                        *)
C21_RankedIffQualified ==
    /\ Computed => RanksThoseAtOrAbove(default_min_match_threshold)
    /\ (Done("is_qualified") /\ ~Truthy(call.student_match)) => R = FALSE
    /\ (Done("is_qualified") /\ Truthy(call.student_match)) =>
           R = (call.student_match.match_pct >= call.min_match_threshold
                /\ call.student_match.mandatory_matched)

(* a candidate matching exactly 0.75 ranked, one matching 0.5 and one      *)
(* lacking the mandatory keyword left out                                   *)
C21_Witness ==
    /\ Computed
    /\ Len(call.students.items) = 3
    /\ get(call.students.items[1], "student_id") = PyInt(1)
    /\ get(call.students.items[2], "student_id") = Str(3 * Q)
    /\ get(call.students.items[3], "student_id") = PyInt(5)
    /\ Len(R.keywords.items) = 4
    /\ Len(R.general_ranking) = 1
    /\ R.general_ranking[1].student_id = PyInt(1)
    /\ R.general_ranking[1].keyword_match_pct = Num(7500)
    /\ R.job_specific_ranking[1].student_id = PyInt(1)

(* C22: the threshold process_job_profile applies when it admits           *)
(* candidates is the configured one, Config.MIN_MATCH_THRESHOLD.           *)
C22_ThresholdIsConfigured ==
    Computed => RanksThoseAtOrAbove(call.env.MIN_MATCH_THRESHOLD)


(* C25: Scenario D. process_job_profile with a non-empty job description   *)
(* and an empty candidate list returns empty general_ranking and           *)
(* job_specific_ranking and an empty errors list; rank_students on an      *)
(* empty list returns two empty views.                                      *)
C25_EmptyCandidateList ==
    /\ (/\ Done("process_job_profile")
        /\ call.job_description.k = "text"
        /\ Truthy(call.job_description)
        /\ call.students = PyList(<<>>)) =>
           /\ R.general_ranking = <<>>
           /\ R.job_specific_ranking = <<>>
           /\ R.errors = <<>>
    /\ (Done("rank_students") /\ call.qualified_students = PyList(<<>>)) =>
           R = Rankings(<<>>, <<>>)

(* the empty list handed over with no API key anywhere: the note about     *)
(* the list is a warning                                                    *)
C25_Witness ==
    /\ Done("process_job_profile")
    /\ call.job_description = Text(<<"a">>)
    /\ call.students = PyList(<<>>)
    /\ call.gemini_api_key = None
    /\ call.env.GEMINI_API_KEY = None
    /\ R.warnings = <<"students list is empty or invalid">>
    /\ R.errors = <<>>
    /\ R.general_ranking = <<>>

(* C26: whenever the errors list process_job_profile returns is not empty, *)
(* general_ranking, job_specific_ranking, job_requests and keywords are    *)
(* empty and job_role is "Unknown".                                        *)
C26_ErrorMeansDefault ==
    (Done("process_job_profile") /\ R.errors # <<>>) =>
        /\ R.general_ranking = <<>>
        /\ R.job_specific_ranking = <<>>
        /\ R.job_requests = <<>>
        /\ R.keywords = PyList(<<>>)
        /\ R.job_role = Text(<<"Unknown">>)

(* an internal fault after the keywords were extracted and a candidate     *)
(* admitted: the second student's id is beyond the float range             *)
C26_Witness ==
    /\ Done("process_job_profile")
    /\ call.env.answers[1] = Good4
    /\ call.students.k = "list"
    /\ Len(call.students.items) = 2
    /\ get(call.students.items[1], "student_id") = PyInt(1)
    /\ get(call.students.items[2], "student_id") = Huge
    /\ R.errors = <<"Critical error in process_job_profile">>
    /\ R.keywords = PyList(<<>>)
    /\ R.job_role = Text(<<"Unknown">>)

Count(list, student_id) ==
    Cardinality({n \in 1..Len(list) : list[n].student_id = student_id})

(* C29: in every result of process_job_profile the two rankings hold the   *)
(* same student ids as often, one entry per qualified student of the       *)
(* input, and job_requests holds one PENDING request per ranked candidate, *)
(* all with one job_id: the three lists are of equal length.               *)
C29_SameCandidatesEverywhere ==
    Done("process_job_profile") =>
        /\ Len(R.general_ranking) = Len(R.job_specific_ranking)
        /\ Len(R.job_requests) = Len(R.general_ranking)
        /\ IdsOf(R.job_specific_ranking) = IdsOf(R.general_ranking)
        /\ IdsOf(R.job_requests) = IdsOf(R.general_ranking)
        /\ \A student_id \in IdsOf(R.general_ranking) :
               /\ Count(R.job_specific_ranking, student_id)
                      = Count(R.general_ranking, student_id)
               /\ Count(R.job_requests, student_id) = Count(R.general_ranking, student_id)
               /\ Computed =>
                      Count(R.general_ranking, student_id)
                          = Cardinality({i \in QualifyingAt(hardcoded_min_match_threshold) :
                                safe_int(call.students.items[i].student_id, None) = student_id})
        /\ Computed =>
               Len(R.general_ranking) = Cardinality(QualifyingAt(hardcoded_min_match_threshold))
        /\ \A n \in 1..Len(R.job_requests) :
               /\ R.job_requests[n].status = "PENDING"
               /\ R.job_requests[n].job_id = R.job_requests[1].job_id

(* a student listed twice and another one, the two views in different      *)
(* orders                                                                   *)
C29_Witness ==
    /\ Computed
    /\ Len(R.general_ranking) = 3
    /\ Count(R.general_ranking, PyInt(1)) = 2
    /\ Count(R.job_requests, PyInt(1)) = 2
    /\ R.general_ranking[1].student_id = PyInt(1)
    /\ R.job_specific_ranking[1].student_id = PyInt(2)
    /\ R.job_requests[3].student_id = PyInt(2)
    /\ R.job_requests[3].job_id = call.env.uuid

-----------------------------------------------------------------------------
(* Claims about GeminiProvider.extract_keywords *)

(* data has the structure _validate_keyword_response asks for *)
PassesValidation(data) ==
    /\ data.k = "dict"
    /\ data.job_role.k = "text"
    /\ data.keywords.k = "list"
    /\ data.mandatory_keywords.k = "list"
    /\ \A kw \in Elements(data.keywords.items) \cup Elements(data.mandatory_keywords.items) :
           kw.k = "text"

(* an attempt that yields no validated dict: an exception, no JSON found,  *)
(* JSON that does not parse, or a response failing the validation          *)
Failed(answer) == answer.k \in {"raise", "nojson", "badjson"} \/ ~PassesValidation(answer.data)

Attempts == Len(prev.answers)

(* what holds of a top-level call at every step: no more than three       *)
(* attempts counted from retry_count 0, one frame entered per failed       *)
(* attempt, and at the return either the validated dict of the last        *)
(* attempt or, after a failed third attempt or with no attempt made, {}    *)
C30_Safe ==
    /\ Attempts <= 3 - prev.retry_count
    /\ call.retry_count = prev.retry_count + ncalls - 1
    /\ call.retry_count \in 0..2
    /\ pc \in {"call", "generate"} =>
           /\ Attempts = ncalls - 1
           /\ \A n \in 1..Attempts : Failed(prev.answers[n])
    /\ pc = "done" =>
           /\ \A n \in 1..(Attempts - 1) : Failed(prev.answers[n])
           /\ Attempts = 0 => R = EmptyDict /\ ncalls = 1
           /\ Attempts > 0 =>
                  /\ Attempts = ncalls
                  /\ IF Failed(prev.answers[Attempts])
                     THEN R = EmptyDict /\ call.retry_count = 2
                     ELSE /\ PassesValidation(R)
                          /\ R = prev.answers[Attempts].data

(* C30: extract_keywords always terminates, after at most three            *)
(* generation attempts per top-level call (retry_count 0, 1, 2); each      *)
(* failed attempt before the third triggers exactly one retry, and the     *)
(* value returned is a dict that passed _validate_keyword_response or {}.  *)
C30_TerminatesWithinThreeAttempts == [](C30_Safe) /\ <>(pc = "done")

(* three attempts failing in three ways, {} returned after the third *)
C30_Witness ==
    /\ pc = "done"
    /\ prev.retry_count = 0
    /\ Attempts = 3
    /\ prev.answers[1] = NoJson
    /\ prev.answers[2] = Json(EmptyDict)
    /\ prev.answers[3] = Raises
    /\ ncalls = 3
    /\ R = EmptyDict

=============================================================================
